---- MODULE Spec2Model ----
(***************************************************************************)
(* Model of the Mermaid diagram repair and highlighting pipeline of the    *)
(* study view (src/components/StudyView.tsx).                              *)
(*                                                                         *)
(* Text is a sequence of one-character strings.  Every regular expression  *)
(* of the source is an operator that scans such a sequence the way the     *)
(* JavaScript engine does: leftmost match first, greedy quantifiers, the   *)
(* scan resuming after the end of each match.  A replace or exec loop is a *)
(* recursion over the matches: from position i it finds the first match at *)
(* or after i, copies the text before it and resumes after it.             *)
(***************************************************************************)
EXTENDS Integers, Sequences, FiniteSets, TLC

(* ------------------------------ characters ----------------------------- *)

NL == "\n"
BS == "\\"
DQ == "\""
\* The backtick, which a TLA+ string cannot hold, is the token "BACKTICK".
BT == "BACKTICK"

UpperCase ==
  <<"A", "B", "C", "D", "E", "F", "G", "H", "I", "J", "K", "L", "M",
    "N", "O", "P", "Q", "R", "S", "T", "U", "V", "W", "X", "Y", "Z">>

LowerCase ==
  <<"a", "b", "c", "d", "e", "f", "g", "h", "i", "j", "k", "l", "m",
    "n", "o", "p", "q", "r", "s", "t", "u", "v", "w", "x", "y", "z">>

UpperSet == {UpperCase[i] : i \in 1..26}
LowerSet == {LowerCase[i] : i \in 1..26}
DigitSet == {"0", "1", "2", "3", "4", "5", "6", "7", "8", "9"}

\* Case folding under the i flag of a regular expression (ASCII letters).
FoldMap == [c \in UpperSet |-> LowerCase[CHOOSE i \in 1..26 : UpperCase[i] = c]]
Fold(c) == IF c \in UpperSet THEN FoldMap[c] ELSE c

\* \s of a regular expression, and the characters String.trim() removes.
IsSpace(c) == c \in {" ", NL, "\t", "\r", "\f"}

\* [A-Z], with (ci) or without the i flag.
IsLetter(c, ci) == c \in UpperSet \/ (ci /\ c \in LowerSet)

\* [A-Za-z0-9_]
IsIdChar(c) == c \in UpperSet \/ c \in LowerSet \/ c \in DigitSet \/ c = "_"

(* --------------------------- scanning helpers -------------------------- *)

\* Whether the literal lit occurs in s at position i (ci: ignoring case).
MatchesAt(s, i, lit, ci) ==
  /\ i >= 1
  /\ i + Len(lit) - 1 <= Len(s)
  /\ \A k \in 1..Len(lit) :
       IF ci THEN Fold(s[i + k - 1]) = Fold(lit[k]) ELSE s[i + k - 1] = lit[k]

\* The least position of a non-empty set of positions.
Least(S) == CHOOSE p \in S : \A q \in S : p <= q

\* The position after the greedy run \s* that starts at i.
SkipSpaces(s, i) ==
  LET stops == {p \in i..Len(s) : ~IsSpace(s[p])}
  IN  IF stops = {} THEN (IF i > Len(s) THEN i ELSE Len(s) + 1) ELSE Least(stops)

\* String.prototype.trim
TrimEnd(s) ==
  LET keep == {p \in 1..Len(s) : ~IsSpace(s[p])}
  IN  IF keep = {} THEN <<>> ELSE SubSeq(s, 1, CHOOSE p \in keep : \A q \in keep : q <= p)

Trim(s) == TrimEnd(SubSeq(s, SkipSpaces(s, 1), Len(s)))

kwGraph == <<"g", "r", "a", "p", "h">>
kwFlowchart == <<"f", "l", "o", "w", "c", "h", "a", "r", "t">>
kwClassDef == <<"c", "l", "a", "s", "s", "D", "e", "f">>
tagMermaid == <<"m", "e", "r", "m", "a", "i", "d">>
tagJson == <<"j", "s", "o", "n">>
fence == <<BT, BT, BT>>

\* kw\s+[A-Z]{2} at position i: the position after the match, 0 if none.
OrientationEnd(s, i, kw, ci) ==
  LET a == i + Len(kw)
      b == SkipSpaces(s, a)
  IN  IF /\ MatchesAt(s, i, kw, ci)
         /\ b > a
         /\ b + 1 <= Len(s)
         /\ IsLetter(s[b], ci)
         /\ IsLetter(s[b + 1], ci)
      THEN b + 2
      ELSE 0

\* (graph|flowchart)\s+[A-Z]{2} at position i: the position after it, or 0.
DeclEnd(s, i, ci) ==
  LET g == OrientationEnd(s, i, kwGraph, ci)
  IN  IF g > 0 THEN g ELSE OrientationEnd(s, i, kwFlowchart, ci)

(* --------------------------- cleanMermaidCode -------------------------- *)

\* code.replace(/\\n/g, '\n')
RECURSIVE NormalizeNewlines(_, _)
NormalizeNewlines(s, i) ==
  LET hits == {p \in i..Len(s) : MatchesAt(s, p, <<BS, "n">>, FALSE)}
  IN  IF hits = {} THEN SubSeq(s, i, Len(s))
      ELSE SubSeq(s, i, Least(hits) - 1) \o <<NL>>
             \o NormalizeNewlines(s, Least(hits) + 2)

\* Mutant of FenceEnd: the language tag is never taken.
FenceEndNoTag(s, i) == i + 3

\* The end of the fence regex (three backticks, then (?:mermaid|json)?) matched
\* at i: the optional tag is taken when present.
FenceEnd(s, i) ==
  IF MatchesAt(s, i + 3, tagMermaid, FALSE) THEN i + 3 + Len(tagMermaid)
  ELSE IF MatchesAt(s, i + 3, tagJson, FALSE) THEN i + 3 + Len(tagJson)
  ELSE i + 3

\* .replace(/BT BT BT(?:mermaid|json)?/g, '')
RECURSIVE RemoveTaggedFences(_, _)
RemoveTaggedFences(s, i) ==
  LET hits == {p \in i..Len(s) : MatchesAt(s, p, fence, FALSE)}
  IN  IF hits = {} THEN SubSeq(s, i, Len(s))
      ELSE SubSeq(s, i, Least(hits) - 1)
             \o RemoveTaggedFences(s, FenceEnd(s, Least(hits)))

\* .replace(/BT BT BT/g, '')
RECURSIVE RemoveFences(_, _)
RemoveFences(s, i) ==
  LET hits == {p \in i..Len(s) : MatchesAt(s, p, fence, FALSE)}
  IN  IF hits = {} THEN SubSeq(s, i, Len(s))
      ELSE SubSeq(s, i, Least(hits) - 1) \o RemoveFences(s, Least(hits) + 3)

\* [0-9a-z;] under the i flag
IsFuseLead(c) == c \in LowerSet \/ c \in UpperSet \/ c \in DigitSet \/ c = ";"

\* .replace(/([0-9a-z;])\s*(graph\s+[A-Z]{2}|flowchart\s+[A-Z]{2})/gi, '$1\n$2')
\* The pattern matched at p: the position after the match, 0 if none.
FusedGraphEnd(s, p) ==
  IF IsFuseLead(s[p]) THEN DeclEnd(s, SkipSpaces(s, p + 1), TRUE) ELSE 0

RECURSIVE SeparateFusedGraph(_, _)
SeparateFusedGraph(s, i) ==
  LET hits == {p \in i..Len(s) : FusedGraphEnd(s, p) > 0}
  IN  IF hits = {} THEN SubSeq(s, i, Len(s))
      ELSE LET p == Least(hits)
               e == FusedGraphEnd(s, p)
           IN  SubSeq(s, i, p) \o <<NL>> \o SubSeq(s, SkipSpaces(s, p + 1), e - 1)
                 \o SeparateFusedGraph(s, e)

\* .replace(/([^\n])\s*(classDef)/gi, '$1\n$2')
\* The pattern matched at p: the position after the match, 0 if none.
FusedClassDefEnd(s, p) ==
  IF s[p] # NL /\ MatchesAt(s, SkipSpaces(s, p + 1), kwClassDef, TRUE)
  THEN SkipSpaces(s, p + 1) + Len(kwClassDef)
  ELSE 0

RECURSIVE SeparateFusedClassDef(_, _)
SeparateFusedClassDef(s, i) ==
  LET hits == {p \in i..Len(s) : FusedClassDefEnd(s, p) > 0}
  IN  IF hits = {} THEN SubSeq(s, i, Len(s))
      ELSE LET p == Least(hits)
               e == FusedClassDefEnd(s, p)
           IN  SubSeq(s, i, p) \o <<NL>> \o SubSeq(s, e - Len(kwClassDef), e - 1)
                 \o SeparateFusedClassDef(s, e)

\* .replace(/(graph\s+[A-Z]{2})([^\s\n])/gi, '$1\n$2')
\* The pattern matched at p: the position of the character captured as $2
\* (the last of the match), 0 if none.
GraphFirstNodeAt(s, p) ==
  LET e == OrientationEnd(s, p, kwGraph, TRUE)
  IN  IF e > 0 /\ e <= Len(s) /\ ~IsSpace(s[e]) THEN e ELSE 0

RECURSIVE SeparateGraphFromFirstNode(_, _)
SeparateGraphFromFirstNode(s, i) ==
  LET hits == {p \in i..Len(s) : GraphFirstNodeAt(s, p) > 0}
  IN  IF hits = {} THEN SubSeq(s, i, Len(s))
      ELSE LET e == GraphFirstNodeAt(s, Least(hits))
           IN  SubSeq(s, i, e - 1) \o <<NL, s[e]>>
                 \o SeparateGraphFromFirstNode(s, e + 1)

\* clean.match(/^\s*(graph|flowchart)\s+[A-Z]{2}/): ^ is the start of the text.
StartsWithDecl(s) == DeclEnd(s, SkipSpaces(s, 1), FALSE) > 0

\* The index (from 1) of the first match of /^\s*(graph|flowchart)\s+[A-Z]{2}/m:
\* ^ is the start of any line; 0 when there is no match.
FirstDeclLine(s) ==
  LET starts == {p \in 1..Len(s) :
                   /\ (p = 1 \/ s[p - 1] = NL)
                   /\ DeclEnd(s, SkipSpaces(s, p), FALSE) > 0}
  IN  IF starts = {} THEN 0 ELSE Least(starts)

\* Mutant of defaultDecl: another orientation.
defaultDeclTD == <<"g", "r", "a", "p", "h", " ", "T", "D", NL>>

defaultDecl == <<"g", "r", "a", "p", "h", " ", "L", "R", NL>>

\* Mutant of EnsureGraphStart: the default declaration is never prepended.
EnsureGraphStartNoDefault(s) ==
  LET p == FirstDeclLine(s)
  IN  IF StartsWithDecl(s) /\ p > 0 THEN SubSeq(s, p, Len(s)) ELSE s

\* The if/else that makes the text start with a declaration.
EnsureGraphStart(s) ==
  IF ~StartsWithDecl(s)
  THEN defaultDecl \o s
  ELSE LET p == FirstDeclLine(s)
       IN  IF p > 0 THEN SubSeq(s, p, Len(s)) ELSE s

\* Mutant of IsProblematic: the parentheses are left out of the class.
IsProblematicNoParens(c) == c \in {"[", "]", "{", "}", DQ, "'", ";"}

\* [\(\)\[\]\{\}"';]
IsProblematic(c) == c \in {"(", ")", "[", "]", "{", "}", DQ, "'", ";"}

\* content.replace(/[\(\)\[\]\{\}"';]/g, ' ').trim()
safeContent(content) ==
  Trim([k \in 1..Len(content) |->
          IF IsProblematic(content[k]) THEN " " ELSE content[k]])

\* The position of the first double quote at or after i, 0 if none.
NextQuote(s, i) ==
  LET quotes == {p \in i..Len(s) : s[p] = DQ}
  IN  IF quotes = {} THEN 0 ELSE Least(quotes)

\* /\["([^"]*)"\]/ matched at position i: the position of the closing quote
\* (the content lies between i + 2 and that position), 0 if there is no match.
LabelClose(s, i) ==
  LET q == IF MatchesAt(s, i, <<"[", DQ>>, FALSE) THEN NextQuote(s, i + 2) ELSE 0
  IN  IF q > 0 /\ q + 1 <= Len(s) /\ s[q + 1] = "]" THEN q ELSE 0

\* clean.replace(/\["([^"]*)"\]/g, (match, content) => ["safeContent"])
RECURSIVE CleanLabels(_, _)
CleanLabels(s, i) ==
  LET hits == {p \in i..Len(s) : LabelClose(s, p) > 0}
  IN  IF hits = {} THEN SubSeq(s, i, Len(s))
      ELSE LET p == Least(hits)
               q == LabelClose(s, p)
           IN  SubSeq(s, i, p - 1)
                 \o <<"[", DQ>> \o safeContent(SubSeq(s, p + 2, q - 1)) \o <<DQ, "]">>
                 \o CleanLabels(s, q + 2)

\* clean.split('\n'): the lines of s from position i on (never empty).
RECURSIVE SplitLines(_, _)
SplitLines(s, i) ==
  LET breaks == {p \in i..Len(s) : s[p] = NL}
  IN  IF breaks = {} THEN <<SubSeq(s, i, Len(s))>>
      ELSE <<SubSeq(s, i, Least(breaks) - 1)>> \o SplitLines(s, Least(breaks) + 1)

\* lines.join('\n')
RECURSIVE JoinLines(_)
JoinLines(lines) ==
  IF lines = <<>> THEN <<>>
  ELSE IF Len(lines) = 1 THEN lines[1]
       ELSE lines[1] \o <<NL>> \o JoinLines(Tail(lines))

\* clean.split('\n').filter(line => line.trim().length > 0).join('\n')
RemoveEmptyLines(s) ==
  JoinLines(SelectSeq(SplitLines(s, 1), LAMBDA line : Len(Trim(line)) > 0))

\* Mutant of unfused: escaped newlines are not converted.
unfusedKeepsEscapes(code) ==
  LET c2 == Trim(RemoveFences(RemoveTaggedFences(code, 1), 1))
      c3 == SeparateFusedGraph(c2, 1)
      c4 == SeparateFusedClassDef(c3, 1)
  IN  SeparateGraphFromFirstNode(c4, 1)

\* The text on which the if/else of EnsureGraphStart decides: the code after
\* the newline, fence and un-fusing replacements.
unfused(code) ==
  LET c1 == NormalizeNewlines(code, 1)
      c2 == Trim(RemoveFences(RemoveTaggedFences(c1, 1), 1))
      c3 == SeparateFusedGraph(c2, 1)
      c4 == SeparateFusedClassDef(c3, 1)
  IN  SeparateGraphFromFirstNode(c4, 1)

\* The label cleaning and the removal of empty lines that end the repair.
finished(s) == RemoveEmptyLines(CleanLabels(s, 1))

\* Mutant of cleanMermaidCode: the guard tests the trimmed code.
cleanMermaidCodeBlankGuard(code) ==
  IF Trim(code) = <<>> THEN <<>>
  ELSE finished(EnsureGraphStart(unfused(code)))

cleanMermaidCode(code) ==
  IF code = <<>> THEN <<>>
  ELSE finished(EnsureGraphStart(unfused(code)))

(* ----------------------- parseGraphRelationships ----------------------- *)

\* The names every JavaScript object inherits from Object.prototype: a lookup
\* obj[key] of such a key in a Record built from {} yields the inherited
\* member (a function or an object, truthy, without includes or forEach).
ObjectPrototypeKeys ==
  {<<"c", "o", "n", "s", "t", "r", "u", "c", "t", "o", "r">>,
   <<"t", "o", "S", "t", "r", "i", "n", "g">>,
   <<"t", "o", "L", "o", "c", "a", "l", "e", "S", "t", "r", "i", "n", "g">>,
   <<"v", "a", "l", "u", "e", "O", "f">>,
   <<"h", "a", "s", "O", "w", "n", "P", "r", "o", "p", "e", "r", "t", "y">>,
   <<"i", "s", "P", "r", "o", "t", "o", "t", "y", "p", "e", "O", "f">>,
   <<"p", "r", "o", "p", "e", "r", "t", "y", "I", "s", "E", "n", "u", "m", "e", "r", "a", "b", "l", "e">>,
   <<"_", "_", "p", "r", "o", "t", "o", "_", "_">>,
   <<"_", "_", "d", "e", "f", "i", "n", "e", "G", "e", "t", "t", "e", "r", "_", "_">>,
   <<"_", "_", "d", "e", "f", "i", "n", "e", "S", "e", "t", "t", "e", "r", "_", "_">>,
   <<"_", "_", "l", "o", "o", "k", "u", "p", "G", "e", "t", "t", "e", "r", "_", "_">>,
   <<"_", "_", "l", "o", "o", "k", "u", "p", "S", "e", "t", "t", "e", "r", "_", "_">>}

\* The position after the greedy run [A-Za-z0-9_]* that starts at i.
IdEnd(s, i) ==
  LET stops == {p \in i..Len(s) : ~IsIdChar(s[p])}
  IN  IF stops = {} THEN (IF i > Len(s) THEN i ELSE Len(s) + 1) ELSE Least(stops)

\* The position after the greedy run [-=.]* that starts at i.
SkipEdgeChars(s, i) ==
  LET stops == {p \in i..Len(s) : s[p] \notin {"-", "=", "."}}
  IN  IF stops = {} THEN (IF i > Len(s) THEN i ELSE Len(s) + 1) ELSE Least(stops)

\* /([A-Za-z0-9_]+)\s*[-=.]*>\s*([A-Za-z0-9_]+)/ matched at position i.
EdgeMatch(s, i) ==
  LET a == IdEnd(s, i)
      b == SkipSpaces(s, a)
      c == SkipEdgeChars(s, b)
      d == SkipSpaces(s, c + 1)
      e == IdEnd(s, d)
  IN  IF a > i /\ c <= Len(s) /\ s[c] = ">" /\ e > d
      THEN [found |-> TRUE, parent |-> SubSeq(s, i, a - 1),
            child |-> SubSeq(s, d, e - 1), lastIndex |-> e]
      ELSE [found |-> FALSE, parent |-> <<>>, child |-> <<>>, lastIndex |-> i]

\* list.includes(x)
Includes(list, x) == \E k \in 1..Len(list) : list[k] = x

\* Mutant of PushUnique: the push is not guarded by includes.
PushAlways(rec, key, x) ==
  LET old == IF key \in DOMAIN rec THEN rec[key] ELSE <<>>
  IN  [k \in DOMAIN rec \cup {key} |-> IF k = key THEN Append(old, x) ELSE rec[k]]

\* if (!rec[key]) rec[key] = []; if (!rec[key].includes(x)) rec[key].push(x);
\* for a key that is not inherited.
PushUnique(rec, key, x) ==
  LET old == IF key \in DOMAIN rec THEN rec[key] ELSE <<>>
      new == IF Includes(old, x) THEN old ELSE Append(old, x)
  IN  [k \in DOMAIN rec \cup {key} |-> IF k = key THEN new ELSE rec[k]]

\* Mutant of recordEdge: a child that has a parent gets no second one.
recordEdgeFirstParentOnly(rel, parent, child) ==
  IF parent \in ObjectPrototypeKeys \/ child \in ObjectPrototypeKeys
  THEN [rel EXCEPT !.threw = TRUE]
  ELSE [rel EXCEPT !.children = PushUnique(rel.children, parent, child),
                   !.parents = IF child \in DOMAIN rel.parents
                               THEN rel.parents
                               ELSE PushUnique(rel.parents, child, parent)]

\* Mutant of recordEdge: the two captured groups are taken in the wrong order.
recordEdgeSwapped(rel, parent, child) ==
  IF parent \in ObjectPrototypeKeys \/ child \in ObjectPrototypeKeys
  THEN [rel EXCEPT !.threw = TRUE]
  ELSE [rel EXCEPT !.children = PushUnique(rel.children, child, parent),
                   !.parents = PushUnique(rel.parents, parent, child)]

\* The body of the while loop for one match.  For an inherited key the test
\* !rec[key] is false and rec[key].includes is not a function: a TypeError.
recordEdge(rel, parent, child) ==
  IF parent \in ObjectPrototypeKeys
  THEN [rel EXCEPT !.threw = TRUE]
  ELSE LET ch == PushUnique(rel.children, parent, child)
       IN  IF child \in ObjectPrototypeKeys
           THEN [rel EXCEPT !.threw = TRUE, !.children = ch]
           ELSE [rel EXCEPT !.children = ch,
                            !.parents = PushUnique(rel.parents, child, parent)]

\* while ((match = regex.exec(mermaidCode)) !== null): the search resumes at
\* lastIndex, the end of the previous match.
RECURSIVE execLoop(_, _, _)
execLoop(s, i, rel) ==
  LET hits == {p \in i..Len(s) : EdgeMatch(s, p).found}
  IN  IF rel.threw \/ hits = {} THEN rel
      ELSE LET m == EdgeMatch(s, Least(hits))
           IN  execLoop(s, m.lastIndex, recordEdge(rel, m.parent, m.child))

noRelationships == [threw |-> FALSE, parents |-> <<>>, children |-> <<>>]

parseGraphRelationships(mermaidCode) == execLoop(mermaidCode, 1, noRelationships)

(* -------------------- the related nodes of a selection ------------------ *)

\* rec[id] as a set: relationships.children[id].forEach(x => relatives.add(x))
Listed(rec, id) ==
  IF id \in DOMAIN rec THEN {rec[id][k] : k \in 1..Len(rec[id])} ELSE {}

noRelatives == [threw |-> FALSE, ids |-> {}]

\* Mutant of relatedNodes: the parents are not added.
relatedNodesChildrenOnly(id, rel) ==
  IF id \in ObjectPrototypeKeys
  THEN [threw |-> TRUE, ids |-> {}]
  ELSE [threw |-> FALSE, ids |-> Listed(rel.children, id)]

\* The set relatives of the highlighting effect.  For an inherited key
\* relationships.children[id] is truthy and has no forEach: a TypeError.
relatedNodes(id, rel) ==
  IF id \in ObjectPrototypeKeys
  THEN [threw |-> TRUE, ids |-> {}]
  ELSE [threw |-> FALSE, ids |-> Listed(rel.children, id) \cup Listed(rel.parents, id)]

(* -------------------------------- slugify ------------------------------- *)

\* The position after the greedy run of characters of set that starts at i.
SkipChars(s, i, set) ==
  LET stops == {p \in i..Len(s) : s[p] \notin set}
  IN  IF stops = {} THEN (IF i > Len(s) THEN i ELSE Len(s) + 1) ELSE Least(stops)

\* .replace(/\s+/g, '-') and .replace(/\-\-+/g, '-'): every run of characters
\* of set, from position i on, becomes one hyphen.
RECURSIVE RunsToHyphen(_, _, _)
RunsToHyphen(s, i, set) ==
  LET hits == {p \in i..Len(s) : s[p] \in set}
  IN  IF hits = {} THEN SubSeq(s, i, Len(s))
      ELSE SubSeq(s, i, Least(hits) - 1) \o <<"-">>
             \o RunsToHyphen(s, SkipChars(s, Least(hits), set), set)

\* .replace(/^-+/, '').replace(/-+$/, '')
StripHyphens(s) ==
  LET keep == {p \in 1..Len(s) : s[p] # "-"}
  IN  IF keep = {} THEN <<>>
      ELSE SubSeq(s, Least(keep), CHOOSE p \in keep : \A q \in keep : q <= p)

\* The texts of the model are ASCII, which normalize('NFD') and the removal
\* of combining marks leave as they are.
slugify(text) ==
  LET lower == [k \in 1..Len(text) |-> Fold(text[k])]
      dashed == RunsToHyphen(lower, 1, {" ", NL, "\t", "\r", "\f"})
      words == SelectSeq(dashed, LAMBDA c : IsIdChar(c) \/ c = "-")
  IN  StripHyphens(RunsToHyphen(words, 1, {"-"}))

(* ------------------------- getNodeLabelFromChart ------------------------ *)

LabelOpeners == {"[", "(", "{"}
LabelClosers == {"]", ")", "}"}
LabelQuotes == {DQ, "'"}

\* ["']?([^"'\]\)\}]+)["']?[\]\)\}]+ matched at position c, behind the
\* opening run: the optional quote, the captured text up to the first quote
\* or closing character, the optional quote, one closing character at least.
LabelTail(s, c) ==
  LET d == IF c <= Len(s) /\ s[c] \in LabelQuotes THEN c + 1 ELSE c
      e == SkipChars(s, d, {s[p] : p \in 1..Len(s)} \ (LabelQuotes \cup LabelClosers))
      f == IF e <= Len(s) /\ s[e] \in LabelQuotes THEN e + 1 ELSE e
  IN  IF e > d /\ f <= Len(s) /\ s[f] \in LabelClosers
      THEN [found |-> TRUE, label |-> SubSeq(s, d, e - 1)]
      ELSE [found |-> FALSE, label |-> <<>>]

\* The whole pattern matched at position p for a node id of word characters:
\* a word boundary, the id, white space, the opening run (the longest that
\* lets the rest match), and the tail.
LabelMatch(s, p, nodeId) ==
  LET a == p + Len(nodeId)
      b == SkipSpaces(s, a)
      c == SkipChars(s, b, LabelOpeners)
      ends == {k \in (b + 1)..c : LabelTail(s, k).found}
  IN  IF /\ MatchesAt(s, p, nodeId, FALSE)
         /\ (p = 1 \/ ~IsIdChar(s[p - 1]))
         /\ ends # {}
      THEN LabelTail(s, CHOOSE k \in ends : \A j \in ends : j <= k)
      ELSE [found |-> FALSE, label |-> <<>>]

\* found is false for the result null.
getNodeLabelFromChart(nodeId, mermaidCode) ==
  LET hits == {p \in 1..Len(mermaidCode) : LabelMatch(mermaidCode, p, nodeId).found}
  IN  IF nodeId = <<>> \/ mermaidCode = <<>> \/ hits = {}
      THEN [found |-> FALSE, label |-> <<>>]
      ELSE LabelMatch(mermaidCode, Least(hits), nodeId)

(* ------------------------- the drawing and its nodes -------------------- *)

\* idAttr.includes(word) and idAttr.endsWith(word)
StrIncludes(s, word) == \E p \in 1..Len(s) : MatchesAt(s, p, word, FALSE)

StrEndsWith(s, word) == MatchesAt(s, Len(s) - Len(word) + 1, word, FALSE)

\* The test the highlighting effect makes of an element id against a node id.
IdAttrMatches(idAttr, id) ==
  \/ StrIncludes(idAttr, <<"-">> \o id \o <<"-">>)
  \/ idAttr = id
  \/ StrEndsWith(idAttr, <<"-">> \o id)

Digits == <<"0", "1", "2", "3", "4", "5", "6", "7", "8", "9">>

\* n in decimal.
RECURSIVE Decimal(_)
Decimal(n) ==
  IF n < 10 THEN <<Digits[n + 1]>>
  ELSE Decimal(n \div 10) \o <<Digits[(n % 10) + 1]>>

\* The id the renderer gives the element of the k-th node it draws, the
\* format the click handler takes apart: flowchart-{ID}-{counter}.
domId(id, k) ==
  <<"f", "l", "o", "w", "c", "h", "a", "r", "t", "-">> \o id \o <<"-">> \o Decimal(k)

\* The position after the line that holds position i.
LineEnd(s, i) ==
  LET breaks == {p \in i..Len(s) : s[p] = NL}
  IN  IF breaks = {} THEN Len(s) + 1 ELSE Least(breaks) + 1

\* Whether the word that starts at i is one that opens a statement which
\* declares no node: graph, flowchart, classDef.
IsStatementKeyword(s, i) ==
  \E kw \in {kwGraph, kwFlowchart, kwClassDef} :
    MatchesAt(s, i, kw, FALSE) /\ IdEnd(s, i) = i + Len(kw)

\* The words of s from position i on that the renderer takes for node ids:
\* not the text of a label, not a class name behind :::, not the words of a
\* declaration or classDef line.
RECURSIVE nodeWords(_, _)
nodeWords(s, i) ==
  LET starts == {p \in i..Len(s) :
                   \/ IsIdChar(s[p])
                   \/ LabelClose(s, p) > 0
                   \/ MatchesAt(s, p, <<":", ":", ":">>, FALSE)}
  IN  IF starts = {} THEN <<>>
      ELSE LET p == Least(starts)
           IN  IF LabelClose(s, p) > 0 THEN nodeWords(s, LabelClose(s, p) + 2)
               ELSE IF ~IsIdChar(s[p]) THEN nodeWords(s, IdEnd(s, p + 3))
               ELSE IF IsStatementKeyword(s, p) THEN nodeWords(s, LineEnd(s, p))
               ELSE <<SubSeq(s, p, IdEnd(s, p) - 1)>> \o nodeWords(s, IdEnd(s, p))

\* The members of seq in the order of their first occurrence.
RECURSIVE FirstOccurrences(_, _)
FirstOccurrences(seq, k) ==
  IF k > Len(seq) THEN <<>>
  ELSE IF \E j \in 1..(k - 1) : seq[j] = seq[k]
       THEN FirstOccurrences(seq, k + 1)
       ELSE <<seq[k]>> \o FirstOccurrences(seq, k + 1)

\* svg.querySelectorAll('.node') of a fresh drawing of text: one element for
\* each node, with the renderer's id and no inline style.
drawnNodes(text) ==
  LET ids == FirstOccurrences(nodeWords(text, 1), 1)
  IN  [k \in 1..Len(ids) |->
         [nodeId |-> ids[k], id |-> domId(ids[k], k - 1), style |-> "plain"]]

\* The first loop of the highlighting effect: every node at full opacity.
restored(allNodes) ==
  [k \in 1..Len(allNodes) |-> [allNodes[k] EXCEPT !.style = "plain"]]

\* The second loop of the highlighting effect: target, relative or dimmed
\* (opacity 0.2) for each element.
highlighted(allNodes, highlighted_id, relIds) ==
  [k \in 1..Len(allNodes) |->
     [allNodes[k] EXCEPT !.style =
        IF IdAttrMatches(allNodes[k].id, highlighted_id) THEN "target"
        ELSE IF \E relId \in relIds : IdAttrMatches(allNodes[k].id, relId)
             THEN "relative"
             ELSE "dimmed"]]

(* ------------------------------- inputs -------------------------------- *)

\* The longest diagram source, in fragments.
MaxFrags == 3

\* The longest diagram source of edge statements, in lines.
MaxStmts == 3

\* Pieces of diagram source as the generator emits them, whole or broken.
RepairFragments ==
  <<<<"g", "r", "a", "p", "h", " ", "L", "R">>,
    <<"f", "l", "o", "w", "c", "h", "a", "r", "t", " ", "T", "D">>,
    <<"g", "r", "a", "p", "h">>,
    <<"T", "D">>,
    <<NL>>,
    <<"c", "l", "a", "s", "s", "D", "e", "f">>,
    <<BT, BT, BT>>,
    <<BS, "n">>,
    <<"N", "1", "[", DQ>>,
    <<DQ, "]">>,
    <<"(">>,
    <<"m", "e", "r", "m", "a", "i", "d">>,
    <<"N", "1", "[", DQ, "A", "r", "t", ".", " ", "(", "1", "-", "5", ")", DQ, "]">>,
    <<"N", "1", "[", DQ, "X", DQ, "]", " ", "-", "-", ">", " ", "N", "2", "[", DQ, "Y", DQ, "]">>>>

\* Statements of a diagram: a declaration, edges in several notations, an
\* edge of labelled and classed nodes, an edge from a node named valueOf.
GraphStatements ==
  <<<<"g", "r", "a", "p", "h", " ", "L", "R">>,
    <<"N", "1", "-", "-", ">", "N", "2">>,
    <<"N", "2", "-", "-", ">", "N", "3">>,
    <<"N", "2", " ", "-", "-", ">", " ", "N", "1">>,
    <<"N", "3", "=", "=", ">", "N", "3">>,
    <<"N", "1", " ", ">", " ", "N", "3">>,
    <<"N", "1", "[", DQ, "T", DQ, "]", ":", ":", ":", "m", "a", "i", "n", " ", "-", "-", ">", " ", "N", "2", "[", DQ, "C", DQ, "]", ":", ":", ":", "s", "u", "b">>,
    <<"v", "a", "l", "u", "e", "O", "f", "-", "-", ">", "N", "1">>>>

RECURSIVE Concat(_, _)
Concat(frags, t) ==
  IF t = <<>> THEN <<>> ELSE frags[t[1]] \o Concat(frags, Tail(t))

RepairInputs ==
  {Concat(RepairFragments, t) :
     t \in UNION {[1..n -> 1..Len(RepairFragments)] : n \in 0..MaxFrags}}

GraphInputs ==
  {JoinLines([k \in 1..Len(t) |-> GraphStatements[t[k]]]) :
     t \in UNION {[1..n -> 1..Len(GraphStatements)] : n \in 0..MaxStmts}}

\* A small diagram, the opening and closing lines of a markdown fence around
\* it, and the pieces of an escaped newline.
fencedBody == <<"g", "r", "a", "p", "h", " ", "L", "R", NL, "A", "-", "-", ">", "B">>
tagText == <<"t", "e", "x", "t">>
fenceClose == <<NL>> \o fence

FenceFragments ==
  <<fence \o tagMermaid \o <<NL>>,
    fence \o tagJson \o <<NL>>,
    fence \o <<NL>>,
    fence \o tagText \o <<NL>>,
    fenceClose,
    fencedBody,
    <<BS>>,
    <<"n">>,
    fence>>

FenceInputs ==
  {Concat(FenceFragments, t) :
     t \in UNION {[1..n -> 1..Len(FenceFragments)] : n \in 0..MaxFrags}}

\* Statements that declare nodes with labels, one with the declaration
\* fused to the orientation, and an edge of bare ids.
LabelStatements ==
  <<<<"N", "1", "[", DQ, "A", "r", "t", ".", " ", "(", "1", "-", "5", ")", DQ, "]">>,
    <<"N", "1", "[", DQ, "X", DQ, "]", " ", "-", "-", ">", " ", "N", "2", "[", DQ, "Y", DQ, "]">>,
    <<"N", "1", "-", "-", ">", "N", "2">>,
    <<"N", "1", "0", "[", DQ, "Z", DQ, "]">>,
    <<"N", "2", "(", DQ, "R", " ", "s", DQ, ")">>,
    <<"g", "r", "a", "p", "h", " ", "L", "R", "N", "1", "[", DQ, "T", DQ, "]">>,
    <<"X", "N", "1", "[", DQ, "W", DQ, "]">>>>

\* The longest diagram source of declarations, in lines.
MaxDecls == 2

LabelInputs ==
  {JoinLines([k \in 1..Len(t) |-> LabelStatements[t[k]]]) :
     t \in UNION {[1..n -> 1..Len(LabelStatements)] : n \in 1..MaxDecls}}

\* Statements of plain edges, of nodes named by words and by numbers.
HighlightStatements ==
  <<<<"N", "1", "-", "-", ">", "N", "2">>,
    <<"N", "2", "-", "-", ">", "N", "3">>,
    <<"N", "3", "=", "=", ">", "N", "3">>,
    <<"1", "-", "-", ">", "2">>>>

HighlightInputs ==
  {JoinLines([k \in 1..Len(t) |-> HighlightStatements[t[k]]]) :
     t \in UNION {[1..n -> 1..Len(HighlightStatements)] : n \in 1..MaxStmts}}

\* The most render failures logged.
MaxErrors == 2

\* Diagrams of edges: two of them of two lines, one with the first node
\* fused to the orientation.
EdgeDiagrams ==
  {<<"N", "1", "-", "-", ">", "N", "2">>,
   <<"N", "2", "-", "-", ">", "N", "3", NL, "N", "3", "-", "-", ">", "N", "1">>,
   <<"g", "r", "a", "p", "h", " ", "L", "R", "N", "1", "-", "-", ">", "N", "2", NL,
     "N", "2", "-", "-", ">", "N", "3">>}

\* The mermaidCode of the diagrams a generation returns: one fragment, or a
\* diagram of edges.
GeneratedDiagrams ==
  ({RepairFragments[k] : k \in 1..Len(RepairFragments)} \ {<<NL>>}) \cup EdgeDiagrams

\* The ids a click can select: nodes of the diagrams, one absent from all.
NodeIds ==
  {<<"N", "1">>,
   <<"N", "2">>,
   <<"N", "3">>,
   <<"N", "4">>,
   <<"m", "a", "i", "n">>,
   <<"v", "a", "l", "u", "e", "O", "f">>}

(* ----------------------------- state machine --------------------------- *)

\* ---- the topics, the quiz and the persisted progress ----

\* The number of topics of the list.
NumTopics == 2

\* The ids of the first topics of TOPICS.
TopicIds ==
  <<"tema_1_constitucion", "tema_2_corona_cortes", "tema_3_gobierno_judicial",
    "tema_5_estatuto_andalucia", "tema_6_regimen_local">>

TOPICS == SubSeq(TopicIds, 1, NumTopics)

\* The indexes of TOPICS, from 0.
TopicIndexes == 0..(Len(TOPICS) - 1)

\* The element of an array at an index counted from 0.
At(array, index) == array[index + 1]

\* A topic without an entry in topic_progress: allProgress[topic.id] is
\* undefined, so bestScore reads as 0 and isPassed as false.
noProgress == [stored |-> FALSE, isPassed |-> FALSE, bestScore |-> 0, lastAttempt |-> 0]

\* topic_progress when nothing is stored.
emptyProgress == [id \in {TOPICS[k] : k \in 1..Len(TOPICS)} |-> noProgress]

\* Math.round((score / total) * 100)
percentageOf(score, total) == (200 * score + total) \div (2 * total)

Max(a, b) == IF a >= b THEN a ELSE b

\* Mutant of saveProgress: the entry is that of the last quiz.
saveProgressLast(allProgress, topicId, score, total, date) ==
  [allProgress EXCEPT ![topicId] =
     [stored |-> TRUE,
      isPassed |-> percentageOf(score, total) >= 50,
      bestScore |-> percentageOf(score, total),
      lastAttempt |-> date]]

\* saveProgress: topic_progress after the quiz of the topic.
saveProgress(allProgress, topicId, score, total, date) ==
  [allProgress EXCEPT ![topicId] =
     [stored |-> TRUE,
      isPassed |-> percentageOf(score, total) >= 50 \/ allProgress[topicId].isPassed,
      bestScore |-> Max(allProgress[topicId].bestScore, percentageOf(score, total)),
      lastAttempt |-> date]]

\* A question of a quiz; the explanation is left out.
Question(question, correctAnswerIndex) ==
  [question |-> question, options |-> <<"A", "B">>,
   correctAnswerIndex |-> correctAnswerIndex]

\* The results of generateQuizQuestions: no questions when the call fails or
\* the reply cannot be parsed, the questions of the reply otherwise.
QuizReplies ==
  {<<>>,
   <<Question("Q1", 1)>>,
   <<Question("Q1", 0), Question("Q2", 1)>>,
   <<Question("Q1", 0), Question("Q2", 1), Question("Q3", 1)>>}

\* The quizState of a QuizView that is mounted.
initialQuizState ==
  [questions |-> <<>>, userAnswers |-> <<>>, currentQuestionIndex |-> 0,
   isFinished |-> FALSE, score |-> 0, mode |-> "REVIEW"]

\* The quizState startQuiz sets for the questions.
startedQuizState(questions, mode) ==
  [questions |-> questions, userAnswers |-> [k \in 1..Len(questions) |-> -1],
   currentQuestionIndex |-> 0, isFinished |-> FALSE, score |-> 0, mode |-> mode]

\* The quizState after handleAnswer(optionIndex).
answered(state, optionIndex) ==
  IF state.isFinished THEN state
  ELSE IF /\ state.mode = "REVIEW"
          /\ At(state.userAnswers, state.currentQuestionIndex) # -1
       THEN state
       ELSE [state EXCEPT !.userAnswers[state.currentQuestionIndex + 1] = optionIndex]

\* Mutant of scoreOf: the questions that were answered.
scoreOfAnswered(questions, userAnswers) ==
  Cardinality({k \in 1..Len(questions) : userAnswers[k] # -1})

\* The score finishQuiz counts.
scoreOf(questions, userAnswers) ==
  Cardinality({k \in 1..Len(questions) : userAnswers[k] = questions[k].correctAnswerIndex})

\* The condition of saveMistakes on a question and its answer.
isMistake(question, userAnswerIdx) ==
  userAnswerIdx # -1 /\ userAnswerIdx # question.correctAnswerIndex

\* The mistakes saveMistakes collects, in the order of the questions.
mistakesOf(topicId, questions, userAnswers, date) ==
  LET wrong == SelectSeq([k \in 1..Len(questions) |-> k],
                         LAMBDA k : isMistake(questions[k], userAnswers[k]))
  IN  [n \in 1..Len(wrong) |->
         [topicTitle |-> topicId,
          question |-> questions[wrong[n]].question,
          userAnswer |-> IF userAnswers[wrong[n]] \in 0..1
                         THEN At(questions[wrong[n]].options, userAnswers[wrong[n]])
                         ELSE "undefined",
          correctAnswer |-> At(questions[wrong[n]].options,
                               questions[wrong[n]].correctAnswerIndex),
          date |-> date]]

\* The number of entries failed_questions keeps.
keptMistakes == 50

\* array.slice(-n)
sliceLast(array, n) ==
  IF Len(array) <= n THEN array ELSE SubSeq(array, Len(array) - n + 1, Len(array))

\* Mutant of saveMistakes: the first entries are kept.
saveMistakesFirst(stored, mistakes) ==
  IF mistakes = <<>> THEN stored
  ELSE SubSeq(stored \o mistakes, 1,
              IF Len(stored \o mistakes) <= keptMistakes THEN Len(stored \o mistakes)
              ELSE keptMistakes)

\* saveMistakes: failed_questions after the quiz.
saveMistakes(stored, mistakes) ==
  IF mistakes = <<>> THEN stored ELSE sliceLast(stored \o mistakes, keptMistakes)

\* The quizzes that are finished in a run.
MaxQuizzes == 2

\* A mistake of an earlier session.
earlierMistake ==
  [topicTitle |-> "tema_1_constitucion", question |-> "Q0", userAnswer |-> "B",
   correctAnswer |-> "A", date |-> 0]

\* failed_questions as earlier sessions left it: nothing, or a list one
\* entry from full, or full.
EarlierMistakes ==
  {<<>>} \cup {[k \in 1..n |-> earlierMistake] : n \in {keptMistakes - 1, keptMistakes}}

\* ---- the study material: generation and persistence ----

\* The replies of the AI service to generateContent: the call fails, the
\* reply has no text, or it has the given text.
replyError == [kind |-> "error", text |-> <<>>]

replyEmpty == [kind |-> "empty", text |-> <<>>]

\* A study outline the service writes.
studyOutline == "# Guia de Estudio"

\* generateStudyOutline: the text of the reply, a fixed sentence when the
\* reply has none and another when the call fails.  The outline is a name
\* for the reply's text.
generateStudyOutline(reply) ==
  IF reply.kind = "error" THEN "Error de conexion con la IA. Por favor verifica tu clave API."
  ELSE IF reply.kind = "empty" THEN "Hubo un error generando el plan de estudio."
  ELSE studyOutline

\* The replies to the outline request.
OutlineReplies == {replyError, replyEmpty, [kind |-> "text", text |-> <<>>]}

\* null as a value of InteractiveDiagram | null.
noDiagram == [present |-> FALSE, mermaidCode |-> <<>>]

\* An InteractiveDiagram object; nodeDetails is left out, and an object
\* without mermaidCode has the empty one.
Diagram(mermaidCode) == [present |-> TRUE, mermaidCode |-> mermaidCode]

\* The characters JSON.stringify escapes in a string, of those of the model.
JSONEscaped == {NL, DQ, BS}

\* The body of a JSON string literal for the text from position i.
RECURSIVE JSONescape(_, _)
JSONescape(s, i) ==
  LET at == {j \in i..Len(s) : s[j] \in JSONEscaped}
  IN  IF at = {} THEN SubSeq(s, i, Len(s))
      ELSE LET j == Least(at)
           IN  SubSeq(s, i, j - 1) \o <<BS, IF s[j] = NL THEN "n" ELSE s[j]>>
                 \o JSONescape(s, j + 1)

\* The text of the body of a JSON string literal from position i.
RECURSIVE JSONunescape(_, _)
JSONunescape(s, i) ==
  LET at == {j \in i..Len(s) - 1 : s[j] = BS}
  IN  IF at = {} THEN SubSeq(s, i, Len(s))
      ELSE LET j == Least(at)
           IN  SubSeq(s, i, j - 1) \o <<IF s[j + 1] = "n" THEN NL ELSE s[j + 1]>>
                 \o JSONunescape(s, j + 2)

JSONkey == <<"{", DQ, "m", "e", "r", "m", "a", "i", "d", "C", "o", "d", "e", DQ, ":", DQ>>

JSONemptyObject == <<"{", "}">>

\* JSON.stringify of an InteractiveDiagram object.
JSONstringify(diagram) ==
  IF diagram.mermaidCode = <<>> THEN JSONemptyObject
  ELSE JSONkey \o JSONescape(diagram.mermaidCode, 1) \o <<DQ, "}">>

\* JSON.parse of a stored InteractiveDiagram.
JSONparse(json) ==
  IF json = JSONemptyObject THEN Diagram(<<>>)
  ELSE Diagram(JSONunescape(SubSeq(json, Len(JSONkey) + 1, Len(json) - 2), 1))

\* generateInteractiveDiagram: null when the call fails or the reply cannot
\* be parsed, the empty object when the reply has no text, the parsed object
\* otherwise.  The reply's text is the JSON of the object.
generateInteractiveDiagram(reply) ==
  IF reply.kind = "error" \/ reply.kind = "unparsable" THEN noDiagram
  ELSE IF reply.kind = "empty" THEN JSONparse(JSONemptyObject)
  ELSE JSONparse(reply.text)

\* The generations whose requests are outstanding together in a run.
MaxGenerations == 1

\* The replies to the diagram request: the text of a reply is the JSON of a
\* diagram.
DiagramReplies ==
  {replyError, replyEmpty, [kind |-> "unparsable", text |-> <<>>]}
    \cup {[kind |-> "json", text |-> JSONstringify(Diagram(d))] : d \in GeneratedDiagrams}

\* ---- the chat with the tutor ----

\* The message ChatAssistant starts with; ids and timestamps are left out.
welcome == [role |-> "model", text |-> <<"welcome">>]

\* The texts typed in the input: nothing, a blank, a question.
InputTexts == {<<>>, <<" ">>, <<"d", "u", "d", "a">>}

\* Mutant of chatWithTutor: no text when the call fails.
chatWithTutorNoFallback(reply) ==
  IF reply.kind = "error" THEN <<>>
  ELSE IF reply.kind = "empty" THEN <<"Lo siento, no pude generar una respuesta.">>
  ELSE reply.text

\* chatWithTutor: the text of the reply, a fixed sentence when the reply has
\* none and another when the call fails.
chatWithTutor(reply) ==
  IF reply.kind = "error" THEN <<"Lo siento, ha ocurrido un error al procesar tu consulta.">>
  ELSE IF reply.kind = "empty" THEN <<"Lo siento, no pude generar una respuesta.">>
  ELSE reply.text

\* The replies to a chat request.
ChatReplies == {replyError, replyEmpty, [kind |-> "text", text |-> <<"r">>]}

\* The prompt of handleReviewMistakes for the last five mistakes.
reviewPrompt(mistakes) ==
  <<"Hola tutor, he fallado estas preguntas">>
    \o [k \in 1..Len(sliceLast(mistakes, 5)) |-> sliceLast(mistakes, 5)[k].question]

\* The message of handleReviewMistakes when nothing is stored.
noMistakesNotice ==
  [role |-> "model", text |-> <<"No tienes fallos registrados todavia.">>]

\* The messages of a transcript in a run.
MaxMessages == 5

\* The chat requests that are outstanding together in a run.
MaxRequests == 2

VARIABLES
  chart,              \* the chart prop of MermaidChart: the diagram source
  pc,                 \* "source", "rendered", "crashed", "reapplied"
  cleanChart,         \* useMemo(() => cleanMermaidCode(chart))
  relationships,      \* useMemo(() => parseGraphRelationships(cleanChart))
  reapplied,          \* cleanMermaidCode applied to cleanChart
  highlightedNodeId,  \* the highlightedNodeId prop; <<>> is null
  relatives,          \* the set relatives of the highlighting effect
  loading,            \* the loading state of StudyView
  renderError,        \* the renderError state of MermaidChart
  renderPromise,      \* window.mermaid.render(id, cleanChart): "none" before
                      \* the call, "pending", "fulfilled", "rejected",
                      \* "thrown" (the call threw), "skipped" (not called)
  svg,                \* the source of the drawing in ref.current; <<>> is none
  errorsLogged,       \* the number of console.error calls of the render effect
  nodes,              \* the .node elements of the drawing: the node each
                      \* stands for, its id attribute and its style
  activeTab,          \* the activeTab state of StudyView
  pendingScrollId,    \* the pendingScrollId state of StudyView; <<>> is null
  jump,               \* the last call of getNodeLabelFromChart made by
                      \* jumpToTextContext: the node id and the result
  content,            \* the content state of StudyView; "" is null
  diagramData,        \* the diagramData state of StudyView
  isSavedMaterial,    \* the isSavedMaterial state of StudyView
  storedText,         \* localStorage study_text_<topic.id>; "" is no item
  storedDiagram,      \* localStorage study_diagram_obj_<topic.id>; <<>> is
                      \* no item
  aiRequests,         \* the requests to the AI service not yet settled
  confirmAnswer,      \* the answer to the last window.confirm of
                      \* handleGenerate: "none" when it was not asked
  currentView,        \* the currentView state of App
  selectedTopic,      \* the index in TOPICS of selectedTopic; -1 is null
  guidedMode,         \* the guidedMode state of App
  progress,           \* the progress state of App
  topicProgress,      \* localStorage topic_progress
  failedQuestions,    \* localStorage failed_questions
  setupMode,          \* the setupMode state of QuizView
  quizRequest,        \* the startQuiz that awaits its questions: its mode,
                      \* "none" when there is none (the loading state)
  quizState,          \* the quizState state of QuizView
  now,                \* Date.now(), in finished quizzes
  messages,           \* the messages state of ChatAssistant
  input,              \* the input state of ChatAssistant
  chatLoading,        \* the loading state of ChatAssistant
  chatRequests,       \* the chat requests not yet settled
  lastSend            \* what the last handleSend did: "accepted",
                      \* "ignored", "none" before any

\* The state of the render effect and of generation.
renderVars == <<loading, renderError, renderPromise, svg, errorsLogged, nodes>>

\* The state of the jump from the diagram to the text.
jumpVars == <<activeTab, pendingScrollId, jump>>

\* The study material shown and persisted, and its generation.
studyVars == <<content, diagramData, isSavedMaterial, storedText, storedDiagram,
               aiRequests, confirmAnswer>>

\* The state of App, of QuizView and of the storage they use.
appVars == <<currentView, selectedTopic, guidedMode, progress, topicProgress,
             failedQuestions, setupMode, quizRequest, quizState, now>>

\* The state of ChatAssistant and its requests.
chatVars == <<messages, input, chatLoading, chatRequests, lastSend>>

vars == <<chart, pc, cleanChart, relationships, reapplied, highlightedNodeId, relatives,
          loading, renderError, renderPromise, svg, errorsLogged, nodes,
          activeTab, pendingScrollId, jump,
          content, diagramData, isSavedMaterial, storedText, storedDiagram,
          aiRequests, confirmAnswer,
          currentView, selectedTopic, guidedMode, progress, topicProgress,
          failedQuestions, setupMode, quizRequest, quizState, now,
          messages, input, chatLoading, chatRequests, lastSend>>

\* App on the home view, as it is mounted, or on the first topic; guidedMode
\* is the stored one and failed_questions is as given.
InitAppWith(view, guided, mistakes) ==
  /\ currentView = view
  /\ selectedTopic = IF view = "HOME" THEN -1 ELSE 0
  /\ guidedMode \in guided
  /\ progress = emptyProgress
  /\ topicProgress = emptyProgress
  /\ failedQuestions \in mistakes
  /\ setupMode = TRUE
  /\ quizRequest = "none"
  /\ quizState = initialQuizState
  /\ now = 1
  /\ messages = <<welcome>>
  /\ input = <<>>
  /\ chatLoading = FALSE
  /\ chatRequests = 0
  /\ lastSend = "none"

noJump == [nodeId |-> <<>>, found |-> FALSE, label |-> <<>>]

InitWith(inputs) ==
  /\ chart \in inputs
  /\ pc = "source"
  /\ cleanChart = <<>>
  /\ relationships = noRelationships
  /\ reapplied = <<>>
  /\ highlightedNodeId = <<>>
  /\ relatives = noRelatives
  /\ loading = FALSE
  /\ renderError = FALSE
  /\ renderPromise = "none"
  /\ svg = <<>>
  /\ errorsLogged = 0
  /\ nodes = <<>>
  /\ activeTab = "schema"
  /\ pendingScrollId = <<>>
  /\ jump = noJump
  /\ content = studyOutline
  /\ diagramData = [present |-> TRUE, mermaidCode |-> chart]
  /\ isSavedMaterial = TRUE
  /\ storedText = content
  /\ storedDiagram = JSONstringify(diagramData)
  /\ aiRequests = 0
  /\ confirmAnswer = "none"
  /\ InitAppWith("STUDY", {FALSE}, {<<>>})

Init == InitWith(RepairInputs)

InitGraph == InitWith(GraphInputs)

\* Mutant of Render: the index is computed from the source, not from the
\* repaired text.
RenderIndexOfSource ==
  /\ pc = "source"
  /\ cleanChart' = cleanMermaidCode(chart)
  /\ \E rel \in {parseGraphRelationships(chart)} :
       /\ relationships' = IF rel.threw THEN noRelationships ELSE rel
       /\ pc' = IF rel.threw THEN "crashed" ELSE "rendered"
  /\ UNCHANGED <<chart, reapplied, highlightedNodeId, relatives>>
  /\ UNCHANGED renderVars
  /\ UNCHANGED jumpVars
  /\ UNCHANGED studyVars
  /\ UNCHANGED appVars
  /\ UNCHANGED chatVars

\* A render of MermaidChart: both memos are computed; a TypeError thrown by
\* parseGraphRelationships ends the render.
Render ==
  /\ pc = "source"
  /\ cleanChart' = cleanMermaidCode(chart)
  /\ \E rel \in {parseGraphRelationships(cleanChart')} :
       /\ relationships' = IF rel.threw THEN noRelationships ELSE rel
       /\ pc' = IF rel.threw THEN "crashed" ELSE "rendered"
  /\ UNCHANGED <<chart, reapplied, highlightedNodeId, relatives>>
  /\ UNCHANGED renderVars
  /\ UNCHANGED jumpVars
  /\ UNCHANGED studyVars
  /\ UNCHANGED appVars
  /\ UNCHANGED chatVars

\* cleanMermaidCode applied to its own output.
Reapply ==
  /\ pc = "rendered"
  /\ reapplied' = cleanMermaidCode(cleanChart)
  /\ pc' = "reapplied"
  /\ UNCHANGED <<chart, cleanChart, relationships, highlightedNodeId, relatives>>
  /\ UNCHANGED renderVars
  /\ UNCHANGED jumpVars
  /\ UNCHANGED studyVars
  /\ UNCHANGED appVars
  /\ UNCHANGED chatVars

\* A click on a node of the drawing selects id (handleNodeClick) and the
\* highlighting effect runs: it restores every node, computes the relatives
\* and styles the nodes.  A TypeError in the computation ends the effect
\* after the restoring loop, and the application with it.
Highlight(id) ==
  /\ pc = "rendered"
  /\ svg # <<>>
  /\ ~relatives.threw
  /\ highlightedNodeId' = id
  /\ relatives' = relatedNodes(id, relationships)
  /\ nodes' = IF relatives'.threw THEN restored(nodes)
              ELSE highlighted(nodes, id, relatives'.ids)
  /\ UNCHANGED <<chart, pc, cleanChart, relationships, reapplied>>
  /\ UNCHANGED <<loading, renderError, renderPromise, svg, errorsLogged>>
  /\ UNCHANGED jumpVars
  /\ UNCHANGED studyVars
  /\ UNCHANGED appVars
  /\ UNCHANGED chatVars

\* The close button of the detail panel: setSelectedNodeId(null); the
\* highlighting effect restores every node and returns.
Deselect ==
  /\ pc = "rendered"
  /\ svg # <<>>
  /\ ~relatives.threw
  /\ highlightedNodeId # <<>>
  /\ highlightedNodeId' = <<>>
  /\ relatives' = noRelatives
  /\ nodes' = restored(nodes)
  /\ UNCHANGED <<chart, pc, cleanChart, relationships, reapplied>>
  /\ UNCHANGED <<loading, renderError, renderPromise, svg, errorsLogged>>
  /\ UNCHANGED jumpVars
  /\ UNCHANGED studyVars
  /\ UNCHANGED appVars
  /\ UNCHANGED chatVars

\* setActiveTab('summary') and then setActiveTab('schema'): MermaidChart is
\* unmounted and mounted again for the same diagram; selectedNodeId is state
\* of StudyView and stays.
setActiveTab ==
  /\ pc = "rendered"
  /\ ~relatives.threw
  /\ pc' = "source"
  /\ cleanChart' = <<>>
  /\ relationships' = noRelationships
  /\ relatives' = noRelatives
  /\ renderError' = FALSE
  /\ renderPromise' = "none"
  /\ svg' = <<>>
  /\ nodes' = <<>>
  /\ UNCHANGED <<chart, reapplied, highlightedNodeId, loading, errorsLogged>>
  /\ UNCHANGED jumpVars
  /\ UNCHANGED studyVars
  /\ UNCHANGED appVars
  /\ UNCHANGED chatVars

\* The render effect of MermaidChart.  ref.current is the host of the
\* drawing, which the error view does not hold.  mermaid.render throws, or
\* returns a promise.
RenderEffect ==
  /\ pc = "rendered"
  /\ renderPromise = "none"
  /\ IF ~renderError /\ cleanChart # <<>>
     THEN /\ svg' = <<>>
          /\ nodes' = <<>>
          /\ \/ /\ renderPromise' = "pending"
                /\ renderError' = FALSE
                /\ UNCHANGED errorsLogged
             \/ /\ errorsLogged < MaxErrors
                /\ renderPromise' = "thrown"
                /\ renderError' = TRUE
                /\ errorsLogged' = errorsLogged + 1
     ELSE /\ renderPromise' = "skipped"
          /\ UNCHANGED <<renderError, svg, errorsLogged, nodes>>
  /\ UNCHANGED <<chart, pc, cleanChart, relationships, reapplied, highlightedNodeId,
                 relatives, loading>>
  /\ UNCHANGED jumpVars
  /\ UNCHANGED studyVars
  /\ UNCHANGED appVars
  /\ UNCHANGED chatVars

\* The promise is fulfilled: the drawing is put into ref.current.
RenderFulfilled ==
  /\ pc = "rendered"
  /\ renderPromise = "pending"
  /\ renderPromise' = "fulfilled"
  /\ svg' = cleanChart
  /\ nodes' = drawnNodes(cleanChart)
  /\ UNCHANGED <<chart, pc, cleanChart, relationships, reapplied, highlightedNodeId,
                 relatives, loading, renderError, errorsLogged>>
  /\ UNCHANGED jumpVars
  /\ UNCHANGED studyVars
  /\ UNCHANGED appVars
  /\ UNCHANGED chatVars

\* The promise is rejected: the catch callback.
RenderRejected ==
  /\ pc = "rendered"
  /\ renderPromise = "pending"
  /\ errorsLogged < MaxErrors
  /\ renderPromise' = "rejected"
  /\ renderError' = TRUE
  /\ errorsLogged' = errorsLogged + 1
  /\ UNCHANGED <<chart, pc, cleanChart, relationships, reapplied, highlightedNodeId,
                 relatives, loading, svg, nodes>>
  /\ UNCHANGED jumpVars
  /\ UNCHANGED studyVars
  /\ UNCHANGED appVars
  /\ UNCHANGED chatVars

\* Mutant of handleGenerate: the renderError state outlives the old chart.
handleGenerateKeepsError ==
  /\ pc \in {"rendered", "unmounted"}
  /\ ~loading
  /\ aiRequests < 2 * MaxGenerations
  /\ loading' = TRUE
  /\ chart' = <<>>
  /\ pc' = "unmounted"
  /\ cleanChart' = <<>>
  /\ relationships' = noRelationships
  /\ relatives' = noRelatives
  /\ renderPromise' = "none"
  /\ svg' = <<>>
  /\ nodes' = <<>>
  /\ UNCHANGED <<reapplied, highlightedNodeId, renderError, errorsLogged>>
  /\ UNCHANGED jumpVars
  /\ confirmAnswer' = IF isSavedMaterial THEN "accepted" ELSE "none"
  /\ content' = ""
  /\ diagramData' = noDiagram
  /\ aiRequests' = aiRequests + 2
  /\ UNCHANGED <<isSavedMaterial, storedText, storedDiagram>>
  /\ UNCHANGED appVars
  /\ UNCHANGED chatVars

\* handleGenerate up to its await: with saved material the user is asked and
\* accepts; loading is set, the text and the diagram are cleared, so the
\* panel shows the spinner and MermaidChart is unmounted with its state, its
\* memos and its pending promise callbacks, and the two requests are made.
\* The buttons that call it are shown when there is text, or when there is
\* none and nothing is loading.
handleGenerate ==
  /\ pc \in {"rendered", "unmounted"}
  /\ ~loading
  /\ aiRequests < 2 * MaxGenerations
  /\ loading' = TRUE
  /\ chart' = <<>>
  /\ pc' = "unmounted"
  /\ cleanChart' = <<>>
  /\ relationships' = noRelationships
  /\ relatives' = noRelatives
  /\ renderError' = FALSE
  /\ renderPromise' = "none"
  /\ svg' = <<>>
  /\ nodes' = <<>>
  /\ UNCHANGED <<reapplied, highlightedNodeId, errorsLogged>>
  /\ UNCHANGED jumpVars
  /\ confirmAnswer' = IF isSavedMaterial THEN "accepted" ELSE "none"
  /\ content' = ""
  /\ diagramData' = noDiagram
  /\ aiRequests' = aiRequests + 2
  /\ UNCHANGED <<isSavedMaterial, storedText, storedDiagram>>
  /\ UNCHANGED appVars
  /\ UNCHANGED chatVars

\* handleGenerate with saved material, when the user declines: it returns.
handleGenerateDeclined ==
  /\ pc \in {"rendered", "unmounted"}
  /\ ~loading
  /\ isSavedMaterial
  /\ confirmAnswer' = "declined"
  /\ UNCHANGED <<chart, pc, cleanChart, relationships, reapplied, highlightedNodeId,
                 relatives>>
  /\ UNCHANGED renderVars
  /\ UNCHANGED jumpVars
  /\ UNCHANGED <<content, diagramData, isSavedMaterial, storedText, storedDiagram,
                 aiRequests>>
  /\ UNCHANGED appVars
  /\ UNCHANGED chatVars

\* handleGenerate after its await: both requests have settled, the results
\* are installed and saved, the diagram when it is not null, and, when it has
\* a mermaidCode and the diagram tab is open, a new MermaidChart is mounted
\* with it.
handleGenerateDone ==
  /\ loading
  /\ \E outline \in OutlineReplies, reply \in DiagramReplies :
       \E textResult \in {generateStudyOutline(outline)},
          diagramResult \in {generateInteractiveDiagram(reply)} :
         /\ content' = textResult
         /\ diagramData' = diagramResult
         /\ storedText' = textResult
         /\ storedDiagram' = IF diagramResult.present THEN JSONstringify(diagramResult)
                             ELSE storedDiagram
         /\ chart' = diagramResult.mermaidCode
         /\ pc' = IF diagramResult.mermaidCode = <<>> \/ activeTab # "schema"
                  THEN "unmounted" ELSE "source"
  /\ isSavedMaterial' = TRUE
  /\ aiRequests' = aiRequests - 2
  /\ loading' = FALSE
  /\ UNCHANGED <<cleanChart, relationships, reapplied, highlightedNodeId, relatives,
                 renderError, renderPromise, svg, errorsLogged, nodes>>
  /\ UNCHANGED jumpVars
  /\ UNCHANGED confirmAnswer
  /\ UNCHANGED appVars
  /\ UNCHANGED chatVars

\* handleGenerate after its await, for a StudyView that was unmounted
\* meanwhile: its state updates are dropped and the results are saved.
handleGenerateDoneUnmounted ==
  /\ aiRequests > (IF loading THEN 2 ELSE 0)
  /\ \E outline \in OutlineReplies, reply \in DiagramReplies :
       \E textResult \in {generateStudyOutline(outline)},
          diagramResult \in {generateInteractiveDiagram(reply)} :
         /\ storedText' = textResult
         /\ storedDiagram' = IF diagramResult.present THEN JSONstringify(diagramResult)
                             ELSE storedDiagram
  /\ aiRequests' = aiRequests - 2
  /\ UNCHANGED <<chart, pc, cleanChart, relationships, reapplied, highlightedNodeId,
                 relatives>>
  /\ UNCHANGED renderVars
  /\ UNCHANGED jumpVars
  /\ UNCHANGED <<content, diagramData, isSavedMaterial, confirmAnswer>>
  /\ UNCHANGED appVars
  /\ UNCHANGED chatVars

\* The topic is left and opened again: a new StudyView is mounted, its state
\* has the initial values and the load effect shows the text and the diagram
\* that are stored.  The requests of the StudyView that was left stay
\* outstanding.
loadTopic ==
  /\ content' = storedText
  /\ isSavedMaterial' = (storedText # "")
  /\ diagramData' = IF storedDiagram # <<>> THEN JSONparse(storedDiagram) ELSE noDiagram
  /\ chart' = diagramData'.mermaidCode
  /\ pc' = "unmounted"
  /\ cleanChart' = <<>>
  /\ relationships' = noRelationships
  /\ highlightedNodeId' = <<>>
  /\ relatives' = noRelatives
  /\ loading' = FALSE
  /\ renderError' = FALSE
  /\ renderPromise' = "none"
  /\ svg' = <<>>
  /\ nodes' = <<>>
  /\ activeTab' = "summary"
  /\ pendingScrollId' = <<>>
  /\ confirmAnswer' = "none"
  /\ UNCHANGED <<reapplied, errorsLogged, jump, storedText, storedDiagram, aiRequests>>
  /\ UNCHANGED appVars
  /\ UNCHANGED chatVars

\* The button of the detail panel of the selected node: the label of the node
\* is looked up in diagramData.mermaidCode; when there is one, its slug is
\* the pending scroll target and the text tab is opened, which unmounts
\* MermaidChart.
jumpToTextContext ==
  /\ pc = "rendered"
  /\ activeTab = "schema"
  /\ ~relatives.threw
  /\ highlightedNodeId # <<>>
  /\ \E label \in {getNodeLabelFromChart(highlightedNodeId, chart)} :
       /\ jump' = [nodeId |-> highlightedNodeId, found |-> label.found,
                   label |-> label.label]
       /\ IF label.found
          THEN /\ pendingScrollId' = slugify(label.label)
               /\ activeTab' = "summary"
               /\ pc' = "unmounted"
               /\ cleanChart' = <<>>
               /\ relationships' = noRelationships
               /\ relatives' = noRelatives
               /\ renderError' = FALSE
               /\ renderPromise' = "none"
               /\ svg' = <<>>
               /\ nodes' = <<>>
          ELSE UNCHANGED <<pendingScrollId, activeTab, pc, cleanChart, relationships,
                           relatives, renderError, renderPromise, svg, nodes>>
  /\ UNCHANGED <<chart, reapplied, highlightedNodeId, loading, errorsLogged>>
  /\ UNCHANGED studyVars
  /\ UNCHANGED appVars
  /\ UNCHANGED chatVars

\* The effect that scrolls to the pending target on the text tab, and its
\* timer: the target is cleared.
scrollToPending ==
  /\ activeTab = "summary"
  /\ pendingScrollId # <<>>
  /\ pendingScrollId' = <<>>
  /\ UNCHANGED <<chart, pc, cleanChart, relationships, reapplied, highlightedNodeId,
                 relatives, activeTab, jump>>
  /\ UNCHANGED renderVars
  /\ UNCHANGED studyVars
  /\ UNCHANGED appVars
  /\ UNCHANGED chatVars

\* setActiveTab('schema') on the text tab: MermaidChart is mounted for the
\* diagram there is.
setActiveTabSchema ==
  /\ activeTab = "summary"
  /\ content # ""
  /\ ~loading
  /\ activeTab' = "schema"
  /\ pc' = IF chart = <<>> THEN "unmounted" ELSE "source"
  /\ UNCHANGED <<chart, cleanChart, relationships, reapplied, highlightedNodeId,
                 relatives, pendingScrollId, jump>>
  /\ UNCHANGED renderVars
  /\ UNCHANGED studyVars
  /\ UNCHANGED appVars
  /\ UNCHANGED chatVars

\* ---- App and QuizView ----

\* Mutant of isTopicLocked: the progress of the topic itself is looked up.
isTopicLockedOwn(index) ==
  IF ~guidedMode THEN FALSE
  ELSE IF index = 0 THEN FALSE
  ELSE ~progress[At(TOPICS, index)].isPassed

\* isTopicLocked of App.
isTopicLocked(index) ==
  IF ~guidedMode THEN FALSE
  ELSE IF index = 0 THEN FALSE
  ELSE ~progress[At(TOPICS, index - 1)].isPassed

\* setCurrentView(view) of the side bar, of the home view and of onBack: when
\* the view changes, the view that was shown is unmounted with its state, and
\* the effect loads the stored progress.  A request of the unmounted view
\* stays outstanding.
setCurrentView(view) ==
  /\ currentView' = view
  /\ progress' = IF view # currentView THEN topicProgress ELSE progress
  /\ setupMode' = TRUE
  /\ quizRequest' = "none"
  /\ quizState' = initialQuizState
  /\ UNCHANGED <<selectedTopic, guidedMode, topicProgress, failedQuestions, now>>
  /\ UNCHANGED <<chart, pc, cleanChart, relationships, reapplied, highlightedNodeId,
                 relatives>>
  /\ UNCHANGED renderVars
  /\ UNCHANGED jumpVars
  /\ UNCHANGED studyVars
  /\ messages' = IF view # currentView THEN <<welcome>> ELSE messages
  /\ input' = IF view # currentView THEN <<>> ELSE input
  /\ chatLoading' = IF view # currentView THEN FALSE ELSE chatLoading
  /\ lastSend' = IF view # currentView THEN "none" ELSE lastSend
  /\ UNCHANGED chatRequests

\* toggleGuidedMode, the switch of the topic list.
toggleGuidedMode ==
  /\ currentView = "TOPIC_LIST"
  /\ guidedMode' = ~guidedMode
  /\ UNCHANGED <<currentView, selectedTopic, progress, topicProgress, failedQuestions,
                 setupMode, quizRequest, quizState, now>>
  /\ UNCHANGED <<chart, pc, cleanChart, relationships, reapplied, highlightedNodeId,
                 relatives>>
  /\ UNCHANGED renderVars
  /\ UNCHANGED jumpVars
  /\ UNCHANGED studyVars
  /\ UNCHANGED chatVars

\* The buttons of a topic of the list, which do nothing on a locked topic:
\* handleStartStudy or handleStartQuiz, then the effect of the change of
\* view.
handleStart(index, view) ==
  /\ currentView = "TOPIC_LIST"
  /\ ~isTopicLocked(index)
  /\ selectedTopic' = index
  /\ currentView' = view
  /\ progress' = topicProgress
  /\ UNCHANGED <<guidedMode, topicProgress, failedQuestions, setupMode, quizRequest,
                 quizState, now>>
  /\ UNCHANGED <<chart, pc, cleanChart, relationships, reapplied, highlightedNodeId,
                 relatives>>
  /\ UNCHANGED renderVars
  /\ UNCHANGED jumpVars
  /\ UNCHANGED studyVars
  /\ UNCHANGED chatVars

handleStartStudy(index) == handleStart(index, "STUDY")

handleStartQuiz(index) == handleStart(index, "QUIZ")

\* The question shown has an answer.
hasAnsweredCurrent == At(quizState.userAnswers, quizState.currentQuestionIndex) # -1

\* QuizView shows the question currentQuestionIndex.
activeQuiz ==
  /\ currentView = "QUIZ"
  /\ ~setupMode
  /\ quizRequest = "none"
  /\ quizState.questions # <<>>
  /\ ~quizState.isFinished

\* startQuiz up to its await, from the setup screen or, with the mode of the
\* quiz, from the results.
startQuiz(mode) ==
  /\ currentView = "QUIZ"
  /\ quizRequest = "none"
  /\ \/ setupMode
     \/ quizState.isFinished /\ quizState.questions # <<>> /\ mode = quizState.mode
  /\ now <= MaxQuizzes
  /\ setupMode' = FALSE
  /\ quizRequest' = mode
  /\ UNCHANGED <<currentView, selectedTopic, guidedMode, progress, topicProgress,
                 failedQuestions, quizState, now>>
  /\ UNCHANGED <<chart, pc, cleanChart, relationships, reapplied, highlightedNodeId,
                 relatives>>
  /\ UNCHANGED renderVars
  /\ UNCHANGED jumpVars
  /\ UNCHANGED studyVars
  /\ UNCHANGED chatVars

\* startQuiz after its await.
startQuizDone ==
  /\ quizRequest # "none"
  /\ \E questions \in QuizReplies :
       quizState' = startedQuizState(questions, quizRequest)
  /\ quizRequest' = "none"
  /\ UNCHANGED <<currentView, selectedTopic, guidedMode, progress, topicProgress,
                 failedQuestions, setupMode, now>>
  /\ UNCHANGED <<chart, pc, cleanChart, relationships, reapplied, highlightedNodeId,
                 relatives>>
  /\ UNCHANGED renderVars
  /\ UNCHANGED jumpVars
  /\ UNCHANGED studyVars
  /\ UNCHANGED chatVars

\* handleAnswer(optionIndex), from the button of an option, which is
\* disabled once the question has an answer.
handleAnswer(optionIndex) ==
  /\ activeQuiz
  /\ ~hasAnsweredCurrent
  /\ quizState' = answered(quizState, optionIndex)
  /\ UNCHANGED <<currentView, selectedTopic, guidedMode, progress, topicProgress,
                 failedQuestions, setupMode, quizRequest, now>>
  /\ UNCHANGED <<chart, pc, cleanChart, relationships, reapplied, highlightedNodeId,
                 relatives>>
  /\ UNCHANGED renderVars
  /\ UNCHANGED jumpVars
  /\ UNCHANGED studyVars
  /\ UNCHANGED chatVars

\* nextQuestion, from the button that is enabled once the question has an
\* answer: the next question or, on the last one, finishQuiz, which counts
\* the score, saves the mistakes and the progress and ends the quiz.
nextQuestion ==
  /\ activeQuiz
  /\ hasAnsweredCurrent
  /\ IF quizState.currentQuestionIndex < Len(quizState.questions) - 1
     THEN /\ quizState' = [quizState EXCEPT
                             !.currentQuestionIndex = quizState.currentQuestionIndex + 1]
          /\ UNCHANGED <<failedQuestions, topicProgress, now>>
     ELSE \E score \in {scoreOf(quizState.questions, quizState.userAnswers)} :
            /\ failedQuestions' =
                 saveMistakes(failedQuestions,
                              mistakesOf(At(TOPICS, selectedTopic), quizState.questions,
                                         quizState.userAnswers, now))
            /\ topicProgress' =
                 saveProgress(topicProgress, At(TOPICS, selectedTopic), score,
                              Len(quizState.questions), now)
            /\ quizState' = [quizState EXCEPT !.isFinished = TRUE, !.score = score]
            /\ now' = now + 1
  /\ UNCHANGED <<currentView, selectedTopic, guidedMode, progress, setupMode, quizRequest>>
  /\ UNCHANGED <<chart, pc, cleanChart, relationships, reapplied, highlightedNodeId,
                 relatives>>
  /\ UNCHANGED renderVars
  /\ UNCHANGED jumpVars
  /\ UNCHANGED studyVars
  /\ UNCHANGED chatVars

\* ---- ChatAssistant ----

\* The condition of handleSend under which it goes on.
canSend(textToSend) == Trim(textToSend) # <<>> /\ ~chatLoading

\* setInput of the input field, which is disabled while loading.
setInput(text) ==
  /\ currentView = "CHAT"
  /\ ~chatLoading
  /\ input' = text
  /\ UNCHANGED <<messages, chatLoading, chatRequests, lastSend>>
  /\ UNCHANGED <<chart, pc, cleanChart, relationships, reapplied, highlightedNodeId,
                 relatives>>
  /\ UNCHANGED renderVars
  /\ UNCHANGED jumpVars
  /\ UNCHANGED studyVars
  /\ UNCHANGED appVars

\* handleSend up to its await, for a text it goes on with: the user message
\* is appended, the input cleared, loading set and the request made.
send(textToSend) ==
  /\ currentView = "CHAT"
  /\ canSend(textToSend)
  /\ Len(messages) + 2 <= MaxMessages
  /\ chatRequests < MaxRequests
  /\ messages' = Append(messages, [role |-> "user", text |-> textToSend])
  /\ input' = <<>>
  /\ chatLoading' = TRUE
  /\ chatRequests' = chatRequests + 1
  /\ lastSend' = "accepted"
  /\ UNCHANGED <<chart, pc, cleanChart, relationships, reapplied, highlightedNodeId,
                 relatives>>
  /\ UNCHANGED renderVars
  /\ UNCHANGED jumpVars
  /\ UNCHANGED studyVars
  /\ UNCHANGED appVars

\* handleSend() of the button and of the Enter key, with the typed text.
handleSend == send(input)

\* handleSend for a text it returns on: a blank text, or any text while
\* loading.
handleSendIgnored ==
  /\ currentView = "CHAT"
  /\ \E textToSend \in {input, reviewPrompt(failedQuestions)} : ~canSend(textToSend)
  /\ lastSend' = "ignored"
  /\ UNCHANGED <<messages, input, chatLoading, chatRequests>>
  /\ UNCHANGED <<chart, pc, cleanChart, relationships, reapplied, highlightedNodeId,
                 relatives>>
  /\ UNCHANGED renderVars
  /\ UNCHANGED jumpVars
  /\ UNCHANGED studyVars
  /\ UNCHANGED appVars

\* handleSend after its await, in a ChatAssistant that is still mounted: the
\* model message is appended and loading cleared.
handleSendDone ==
  /\ currentView = "CHAT"
  /\ chatLoading
  /\ \E reply \in ChatReplies :
       messages' = Append(messages, [role |-> "model", text |-> chatWithTutor(reply)])
  /\ chatLoading' = FALSE
  /\ chatRequests' = chatRequests - 1
  /\ UNCHANGED <<input, lastSend>>
  /\ UNCHANGED <<chart, pc, cleanChart, relationships, reapplied, highlightedNodeId,
                 relatives>>
  /\ UNCHANGED renderVars
  /\ UNCHANGED jumpVars
  /\ UNCHANGED studyVars
  /\ UNCHANGED appVars

\* handleSend after its await, for a request of a ChatAssistant that was
\* unmounted meanwhile: its state updates are dropped.
handleSendDoneUnmounted ==
  /\ chatRequests > (IF chatLoading THEN 1 ELSE 0)
  /\ chatRequests' = chatRequests - 1
  /\ UNCHANGED <<messages, input, chatLoading, lastSend>>
  /\ UNCHANGED <<chart, pc, cleanChart, relationships, reapplied, highlightedNodeId,
                 relatives>>
  /\ UNCHANGED renderVars
  /\ UNCHANGED jumpVars
  /\ UNCHANGED studyVars
  /\ UNCHANGED appVars

\* handleReviewMistakes, whose button is disabled while loading: a notice
\* when no mistakes are stored, handleSend(prompt) otherwise.  The list is
\* never stored empty.
handleReviewMistakes ==
  /\ currentView = "CHAT"
  /\ ~chatLoading
  /\ IF failedQuestions = <<>>
     THEN /\ Len(messages) < MaxMessages
          /\ messages' = Append(messages, noMistakesNotice)
          /\ UNCHANGED <<input, chatLoading, chatRequests, lastSend>>
          /\ UNCHANGED <<chart, pc, cleanChart, relationships, reapplied, highlightedNodeId,
                         relatives>>
          /\ UNCHANGED renderVars
          /\ UNCHANGED jumpVars
          /\ UNCHANGED studyVars
          /\ UNCHANGED appVars
     ELSE send(reviewPrompt(failedQuestions))

Next == Render \/ Reapply

NextGraph ==
  \/ Render
  \/ RenderEffect
  \/ RenderFulfilled
  \/ \E id \in NodeIds : Highlight(id)

Spec == Init /\ [][Next]_vars

SpecGraph == InitGraph /\ [][NextGraph]_vars

InitHighlight == InitWith(HighlightInputs)

\* The clicks are on the nodes of the drawing.
NextHighlight ==
  \/ Render
  \/ RenderEffect
  \/ RenderFulfilled
  \/ \E k \in 1..Len(nodes) : Highlight(nodes[k].nodeId)
  \/ Deselect
  \/ setActiveTab

SpecHighlight == InitHighlight /\ [][NextHighlight]_vars

InitJump == InitWith(LabelInputs)

NextJump ==
  \/ Render
  \/ RenderEffect
  \/ RenderFulfilled
  \/ \E k \in 1..Len(nodes) : Highlight(nodes[k].nodeId)
  \/ jumpToTextContext
  \/ scrollToPending
  \/ setActiveTabSchema

SpecJump == InitJump /\ [][NextJump]_vars

InitFence == InitWith(FenceInputs)

NextFence == Render \/ Reapply

SpecFence == InitFence /\ [][NextFence]_vars

InitRecover == InitWith(GeneratedDiagrams)

NextRecover ==
  \/ Render
  \/ RenderEffect
  \/ RenderFulfilled
  \/ RenderRejected
  \/ handleGenerate
  \/ handleGenerateDone

SpecRecover == InitRecover /\ [][NextRecover]_vars

\* The study view as it is before a topic is opened.
InitStudyView ==
  /\ chart = <<>>
  /\ pc = "unmounted"
  /\ cleanChart = <<>>
  /\ relationships = noRelationships
  /\ reapplied = <<>>
  /\ highlightedNodeId = <<>>
  /\ relatives = noRelatives
  /\ loading = FALSE
  /\ renderError = FALSE
  /\ renderPromise = "none"
  /\ svg = <<>>
  /\ errorsLogged = 0
  /\ nodes = <<>>
  /\ activeTab = "summary"
  /\ pendingScrollId = <<>>
  /\ jump = noJump
  /\ content = ""
  /\ diagramData = noDiagram
  /\ isSavedMaterial = FALSE
  /\ storedText = ""
  /\ storedDiagram = <<>>
  /\ aiRequests = 0
  /\ confirmAnswer = "none"

\* A topic opened for the first time: nothing is stored, nothing is shown.
InitStudy ==
  /\ InitStudyView
  /\ InitAppWith("STUDY", {FALSE}, {<<>>})

\* Generations, accepted or declined, the diagram tab, and the topic left
\* and opened again.
NextStudy ==
  \/ handleGenerate
  \/ handleGenerateDeclined
  \/ handleGenerateDone
  \/ handleGenerateDoneUnmounted
  \/ loadTopic
  \/ setActiveTabSchema
  \/ Render

SpecStudy == InitStudy /\ [][NextStudy]_vars

\* The requests of a generation settle: both service functions catch every
\* failure of the call and return.
SpecStudyFair ==
  SpecStudy /\ WF_vars(handleGenerateDone) /\ WF_vars(handleGenerateDoneUnmounted)

\* App as it is mounted, after earlier sessions.
InitApp ==
  /\ InitStudyView
  /\ InitAppWith("HOME", BOOLEAN, EarlierMistakes)

\* The views, the guided mode and the quizzes.
NextApp ==
  \/ \E view \in {"HOME", "TOPIC_LIST", "CHAT"} : setCurrentView(view)
  \/ toggleGuidedMode
  \/ \E index \in TopicIndexes : handleStartStudy(index)
  \/ \E index \in TopicIndexes : handleStartQuiz(index)
  \/ \E mode \in {"REVIEW", "REAL"} : startQuiz(mode)
  \/ startQuizDone
  \/ \E optionIndex \in 0..1 : handleAnswer(optionIndex)
  \/ nextQuestion

SpecApp == InitApp /\ [][NextApp]_vars

\* The chat is opened after earlier sessions.
InitChat ==
  /\ InitStudyView
  /\ InitAppWith("CHAT", {FALSE}, EarlierMistakes)

\* The chat, and leaving it and coming back.
NextChat ==
  \/ \E text \in InputTexts : setInput(text)
  \/ handleSend
  \/ handleSendIgnored
  \/ handleSendDone
  \/ handleSendDoneUnmounted
  \/ handleReviewMistakes
  \/ \E view \in {"HOME", "CHAT"} : setCurrentView(view)

SpecChat == InitChat /\ [][NextChat]_vars

\* Generation, rendering and selection together.
NextIndex ==
  \/ Render
  \/ RenderEffect
  \/ RenderFulfilled
  \/ RenderRejected
  \/ \E k \in 1..Len(nodes) : Highlight(nodes[k].nodeId)
  \/ handleGenerate
  \/ handleGenerateDone

SpecIndex == InitRecover /\ [][NextIndex]_vars

(* ------------------------------ properties ----------------------------- *)

Lines(s) == SplitLines(s, 1)

\* A line that starts, after optional indentation, with graph or flowchart,
\* spaces and two capital letters.
IsDeclLine(line) == DeclEnd(line, SkipSpaces(line, 1), FALSE) > 0

DeclLineCount(s) == Cardinality({k \in 1..Len(Lines(s)) : IsDeclLine(Lines(s)[k])})

\* The positions of s where a bracketed double-quoted label starts.
LabelStarts(s) == {i \in 1..Len(s) : LabelClose(s, i) > 0}

\* A label of s whose text holds one of the characters ( ) { } [ ] " ' ;
HasUnsafeLabel(s) ==
  \E i \in LabelStarts(s) :
    \E k \in (i + 2)..(LabelClose(s, i) - 1) :
      s[k] \in {"(", ")", "[", "]", "{", "}", DQ, "'", ";"}

lineGraphLR == <<"g", "r", "a", "p", "h", " ", "L", "R">>
declArt == <<"N", "1", "[", DQ, "A", "r", "t", ".", " ", "(", "1", "-", "5", ")", DQ, "]">>
declArtRepaired == <<"N", "1", "[", DQ, "A", "r", "t", ".", " ", "1", "-", "5", DQ, "]">>
scenarioB == <<"N", "1", "[", DQ, "X", DQ, "]", " ", "-", "-", ">", " ", "N", "2", "[", DQ, "Y", DQ, "]">>
idN1 == <<"N", "1">>
idN2 == <<"N", "2">>
idN3 == <<"N", "3">>
edgesD == <<"N", "1", "-", "-", ">", "N", "2", NL, "N", "2", "-", "-", ">", "N", "3">>

\* C1: repair is idempotent: cleanMermaidCode applied to its own output
\* returns that output unchanged.
C1_Idempotent == pc = "reapplied" => reapplied = cleanChart

C4_PreambleDiscarded ==
  (pc # "source" /\ chart # <<>>) =>
    LET t == unfused(chart)
        p == FirstDeclLine(t)
    IN  cleanChart =
          finished(IF p = 0 THEN lineGraphLR \o <<NL>> \o t ELSE SubSeq(t, p, Len(t)))

\* C5: no bracketed double-quoted label of the output holds one of the
\* characters ( ) { } [ ] " ' ;
C5_LabelSafety == pc # "source" => ~HasUnsafeLabel(cleanChart)

\* A source whose label holds such a character, repaired into a diagram
\* that still has a label.
C5_Witness ==
  pc = "rendered" /\ HasUnsafeLabel(chart) /\ LabelStarts(cleanChart) # {}

\* C6: the declaration N1["Art. (1-5)"] is repaired to N1["Art. 1-5"], the
\* words of the label separated by single spaces.
C6_ScenarioC ==
  (pc # "source" /\ chart \in {declArt, lineGraphLR \o <<NL>> \o declArt}) =>
    cleanChart = lineGraphLR \o <<NL>> \o declArtRepaired

\* A source free of everything the repair acts on and without a declaration.
WellFormedNoDecl(x) ==
  /\ x # <<>>
  /\ Trim(x) = x
  /\ \A i \in 1..Len(x) :
       /\ ~MatchesAt(x, i, <<BS, "n">>, FALSE)
       /\ ~MatchesAt(x, i, fence, FALSE)
       /\ ~MatchesAt(x, i, kwClassDef, TRUE)
       /\ DeclEnd(x, i, TRUE) = 0
       /\ LabelClose(x, i) > 0 =>
            LET inner == SubSeq(x, i + 2, LabelClose(x, i) - 1)
            IN  /\ Trim(inner) = inner
                /\ \A k \in 1..Len(inner) :
                     inner[k] \notin {"(", ")", "[", "]", "{", "}", DQ, "'", ";"}
  /\ \A k \in 1..Len(Lines(x)) : Trim(Lines(x)[k]) # <<>>

\* C7: a well-formed source without a declaration is returned unchanged
\* after the line graph LR.
C7_DefaultPrepended ==
  (pc # "source" /\ WellFormedNoDecl(chart)) =>
    cleanChart = lineGraphLR \o <<NL>> \o chart

\* Scenario B: N1["X"] --> N2["Y"] repaired.
C7_Witness ==
  /\ pc = "rendered"
  /\ chart = scenarioB
  /\ cleanChart = lineGraphLR \o <<NL>> \o scenarioB

\* Every id the adjacency index names.
IndexIds(rel) ==
  DOMAIN rel.children \cup DOMAIN rel.parents
    \cup UNION {Listed(rel.children, a) : a \in DOMAIN rel.children}
    \cup UNION {Listed(rel.parents, b) : b \in DOMAIN rel.parents}

IsChildOf(rel, a, b) == a \in DOMAIN rel.children /\ Includes(rel.children[a], b)

IsParentOf(rel, b, a) == b \in DOMAIN rel.parents /\ Includes(rel.parents[b], a)

\* C8: b is in children[a] if and only if a is in parents[b].
C8_AdjacencySymmetry ==
  pc = "rendered" =>
    \A a \in IndexIds(relationships) : \A b \in IndexIds(relationships) :
      IsChildOf(relationships, a, b) <=> IsParentOf(relationships, b, a)

\* An index in which a node has two parents.
C8_Witness ==
  /\ pc = "rendered"
  /\ \E b \in DOMAIN relationships.parents : Len(relationships.parents[b]) >= 2

\* C9: the related set of the selected node is exactly its direct children
\* and direct parents.
C9_RelatedSet ==
  (pc = "rendered" /\ highlightedNodeId # <<>> /\ ~relatives.threw) =>
    \A m \in IndexIds(relationships) \cup relatives.ids :
      m \in relatives.ids <=>
        \/ IsChildOf(relationships, highlightedNodeId, m)
        \/ IsParentOf(relationships, highlightedNodeId, m)

\* A selection with a parent, a child and a node two hops away, which is
\* not related.
C9_Witness ==
  /\ pc = "rendered"
  /\ highlightedNodeId # <<>>
  /\ \E p \in relatives.ids : \E c \in relatives.ids : \E m \in IndexIds(relationships) :
       /\ IsParentOf(relationships, highlightedNodeId, p)
       /\ IsChildOf(relationships, highlightedNodeId, c)
       /\ IsChildOf(relationships, c, m)
       /\ m # highlightedNodeId
       /\ m \notin relatives.ids

\* C10: the edges N1-->N2 and N2-->N3 give children[N1] = [N2],
\* parents[N3] = [N2], children[N2] = [N3], parents[N2] = [N1]; the related
\* set of N2 is {N1, N3} and that of N1 does not hold N3.
C10_ScenarioD ==
  (pc = "rendered" /\ chart \in {edgesD, lineGraphLR \o <<NL>> \o edgesD}) =>
    /\ DOMAIN relationships.children = {idN1, idN2}
    /\ DOMAIN relationships.parents = {idN2, idN3}
    /\ relationships.children[idN1] = <<idN2>>
    /\ relationships.parents[idN3] = <<idN2>>
    /\ relationships.children[idN2] = <<idN3>>
    /\ relationships.parents[idN2] = <<idN1>>
    /\ highlightedNodeId = idN2 => relatives = [threw |-> FALSE, ids |-> {idN1, idN3}]
    /\ highlightedNodeId = idN1 => (~relatives.threw /\ idN3 \notin relatives.ids)

\* Scenario D rendered, N2 selected.
C10_Witness ==
  /\ pc = "rendered"
  /\ chart = edgesD
  /\ highlightedNodeId = idN2
  /\ relatives.ids = {idN1, idN3}

\* C11: in a rendered diagram the adjacency query for a selected id that the
\* index does not name never fails and gives the empty related set.
C11_AbsentIdEmpty ==
  (pc = "rendered" /\ DOMAIN relationships.children # {} /\ highlightedNodeId # <<>>
     /\ highlightedNodeId \notin IndexIds(relationships)) =>
    (~relatives.threw /\ relatives.ids = {})

\* The text in the pre element of the error view; <<>> when the view is not
\* the error view.
errorViewText == IF renderError THEN cleanChart ELSE <<>>

\* C12: a render failure puts the chart in the error state, which shows the
\* repaired text of the current source; the error state comes from a
\* failure of the current chart only, and a chart whose render succeeded is
\* shown without the error state.
C12_Recoverable ==
  /\ renderPromise \in {"rejected", "thrown"} => renderError
  /\ renderError =>
       /\ pc = "rendered"
       /\ renderPromise \in {"rejected", "thrown"}
       /\ errorViewText = cleanMermaidCode(chart)
       /\ errorViewText # <<>>
  /\ renderPromise = "fulfilled" => (~renderError /\ svg = cleanChart /\ svg # <<>>)
  /\ (pc = "rendered" /\ loading = FALSE) => renderPromise # "skipped"

\* A diagram is shown after an earlier render failure.
C12_Witness ==
  /\ errorsLogged > 0
  /\ renderPromise = "fulfilled"
  /\ ~renderError
  /\ svg = cleanChart

\* The character before position p of s starts a new line at p.
AtLineStart(s, p) == p = 1 \/ s[p - 1] = NL

\* C13: every occurrence of classDef in the repaired text starts its own
\* line.
C13_ClassDefOwnLine ==
  pc # "source" =>
    \A p \in 1..Len(cleanChart) :
      MatchesAt(cleanChart, p, kwClassDef, FALSE) => AtLineStart(cleanChart, p)

\* C14: no graph-orientation declaration of the repaired text is
\* immediately preceded by a non-whitespace character.
C14_DeclNeverFused ==
  pc # "source" =>
    \A p \in 2..Len(cleanChart) :
      DeclEnd(cleanChart, p, FALSE) > 0 => IsSpace(cleanChart[p - 1])

HasEscapedNewline(s) == \E p \in 1..Len(s) : MatchesAt(s, p, <<BS, "n">>, FALSE)

HasFence(s) == \E p \in 1..Len(s) : MatchesAt(s, p, fence, FALSE)

Contains(s, word) == \E p \in 1..Len(s) : MatchesAt(s, p, word, FALSE)

\* C15 as claimed: the repaired text never contains an escaped newline
\* sequence.
C15_NoEscapedNewline == pc # "source" => ~HasEscapedNewline(cleanChart)

\* C15: every escaped newline of the source is converted before any other
\* rule, so converting them beforehand changes nothing, and the repaired
\* text of a source without a fence mark contains no escaped newline.
C15_ConvertedFirst ==
  pc # "source" =>
    /\ cleanChart = cleanMermaidCode(NormalizeNewlines(chart, 1))
    /\ ~HasFence(chart) => ~HasEscapedNewline(cleanChart)

\* A source with an escaped newline and no fence, repaired.
C15_Witness ==
  /\ pc = "rendered"
  /\ HasEscapedNewline(chart)
  /\ ~HasFence(chart)
  /\ Contains(chart, fencedBody)

\* The diagram wrapped in a fence whose opening line is open.
Wrapped(open) == open \o fencedBody \o fenceClose

\* The repaired text is that of the bare diagram, with no fence mark and
\* no language tag.
StrippedClean ==
  /\ cleanChart = cleanMermaidCode(fencedBody)
  /\ ~HasFence(cleanChart)
  /\ \A tag \in {tagMermaid, tagJson, tagText} : ~Contains(cleanChart, tag)

idMain == <<"m", "a", "i", "n">>
edgeLabelled == GraphStatements[7]
edgeBare == GraphStatements[6]

\* C17: the adjacency index names node ids only, never a style-class name;
\* for the edge N1["T"]:::main --> N2["C"]:::sub the recorded parent of N2
\* is N1.
C17_OnlyNodeIds ==
  pc = "rendered" =>
    /\ idMain \notin IndexIds(relationships)
    /\ chart = edgeLabelled =>
         /\ DOMAIN relationships.parents = {idN2}
         /\ relationships.parents[idN2] = <<idN1>>

\* C18: a bare > between two identifiers, with no dash, equals sign or dot
\* before it, is not recorded as an edge.
C18_BareArrowNotEdge ==
  (pc = "rendered" /\ chart = edgeBare) =>
    /\ relationships.children = <<>>
    /\ relationships.parents = <<>>

\* The successive matches of the edge pattern in s from position i on, as
\* pairs <<source, destination>> in text order.
RECURSIVE edgeMatches(_, _)
edgeMatches(s, i) ==
  LET hits == {p \in i..Len(s) : EdgeMatch(s, p).found}
  IN  IF hits = {} THEN <<>>
      ELSE LET m == EdgeMatch(s, Least(hits))
           IN  <<<<m.parent, m.child>>>> \o edgeMatches(s, m.lastIndex)

\* The first position of x in seq, 0 when it is absent.
FirstAt(seq, x) ==
  IF \E k \in 1..Len(seq) : seq[k] = x
  THEN Least({k \in 1..Len(seq) : seq[k] = x})
  ELSE 0

\* list is duplicate-free, and its members are the ids that pair(id) finds
\* among the matches, in the order of their first match.
FirstOccurrenceOrder(list, matches, pair(_)) ==
  /\ \A j \in 1..Len(list) : \A k \in 1..Len(list) : j < k => list[j] # list[k]
  /\ \A j \in 1..Len(list) : FirstAt(matches, pair(list[j])) > 0
  /\ \A j \in 1..Len(list) : \A k \in 1..Len(list) :
       j < k => FirstAt(matches, pair(list[j])) < FirstAt(matches, pair(list[k]))

\* C19: every children and parents list is duplicate-free and ordered by the
\* first occurrence of its edges in the text, and every edge of the text,
\* self-loops and cycles included, is in both lists.
C19_DuplicateFreeInOrder ==
  pc = "rendered" =>
    \A matches \in {edgeMatches(cleanChart, 1)} :
      /\ \A a \in DOMAIN relationships.children :
           FirstOccurrenceOrder(relationships.children[a], matches, LAMBDA b : <<a, b>>)
      /\ \A b \in DOMAIN relationships.parents :
           FirstOccurrenceOrder(relationships.parents[b], matches, LAMBDA a : <<a, b>>)
      /\ \A k \in 1..Len(matches) :
           /\ IsChildOf(relationships, matches[k][1], matches[k][2])
           /\ IsParentOf(relationships, matches[k][2], matches[k][1])

\* A text in which an edge is repeated after another edge of the same
\* source, and the list of that source has both children.
C19_Witness ==
  /\ pc = "rendered"
  /\ \E matches \in {edgeMatches(cleanChart, 1)} :
       \E j \in 1..Len(matches) : \E k \in 1..Len(matches) :
         /\ j + 1 < k
         /\ matches[j] = matches[k]
         /\ Len(relationships.children[matches[j][1]]) = 2

\* The class the claim gives the node named id when selected is selected
\* (<<>> is no selection) and the index is rel.
ClaimedStyle(id, selected, rel) ==
  IF selected = <<>> THEN "plain"
  ELSE IF id = selected THEN "target"
  ELSE IF IsChildOf(rel, selected, id) \/ IsParentOf(rel, selected, id) THEN "relative"
  ELSE "dimmed"

\* C20: in a drawn diagram with a node selected the target is exactly the
\* selected node, the relatives are exactly the other nodes of its related
\* set and every other node is dimmed; with no node selected every node is
\* at full opacity.
C20_ThreeClasses ==
  (pc = "rendered" /\ svg # <<>> /\ ~relatives.threw) =>
    \A k \in 1..Len(nodes) :
      nodes[k].style = ClaimedStyle(nodes[k].nodeId, highlightedNodeId, relationships)

\* The text between the quotes of the first declaration of node id in text:
\* the id as a whole word, an opening bracket, parenthesis or brace, a quoted
\* text and a closing character.  found is false when there is none.
DeclaredLabel(id, text) ==
  LET QuoteAt(p) == SkipSpaces(text, p + Len(id)) + 1
      Declares(p) ==
        /\ MatchesAt(text, p, id, FALSE)
        /\ (p = 1 \/ ~IsIdChar(text[p - 1]))
        /\ QuoteAt(p) + 1 <= Len(text)
        /\ text[QuoteAt(p) - 1] \in LabelOpeners
        /\ text[QuoteAt(p)] = DQ
        /\ NextQuote(text, QuoteAt(p) + 1) > 0
        /\ NextQuote(text, QuoteAt(p) + 1) + 1 <= Len(text)
        /\ text[NextQuote(text, QuoteAt(p) + 1) + 1] \in LabelClosers
      decls == {p \in 1..Len(text) : Declares(p)}
  IN  IF decls = {} THEN [found |-> FALSE, label |-> <<>>]
      ELSE [found |-> TRUE,
            label |-> SubSeq(text, QuoteAt(Least(decls)) + 1,
                             NextQuote(text, QuoteAt(Least(decls)) + 1) - 1)]

\* C21: the label looked up for a node is the complete text between the
\* quotes of its declaration, and null when the text does not declare it.
C21_CompleteLabel ==
  jump.nodeId # <<>> =>
    [found |-> jump.found, label |-> jump.label] = DeclaredLabel(jump.nodeId, chart)

\* C22: the label of a jump is the label of the node in the repaired
\* diagram.
C22_LabelOfRepaired ==
  jump.nodeId # <<>> =>
    [found |-> jump.found, label |-> jump.label]
      = getNodeLabelFromChart(jump.nodeId, cleanMermaidCode(chart))

\* C23: in every state of a rendered MermaidChart the repaired text and the
\* adjacency index are those of the current source, and the relatives the
\* highlighting has computed are those of the selection in that index.
C23_IndexOfCurrentSource ==
  pc = "rendered" =>
    /\ cleanChart = cleanMermaidCode(chart)
    /\ relationships = parseGraphRelationships(cleanChart)
    /\ relatives \in {noRelatives, relatedNodes(highlightedNodeId, relationships)}

\* After a failed render and a regeneration, a selection in the new diagram
\* with relatives.
C23_Witness ==
  /\ pc = "rendered"
  /\ errorsLogged > 0
  /\ svg # <<>>
  /\ highlightedNodeId # <<>>
  /\ relatives.ids # {}

\* C25: once a generation has ended, the stored text is the text shown and
\* the stored diagram is the diagram shown, none being stored when none is
\* shown.
C25_StoredIsShown ==
  (~loading /\ content # "") =>
    /\ storedText = content
    /\ IF diagramData.present
       THEN storedDiagram # <<>> /\ JSONparse(storedDiagram) = diagramData
       ELSE storedDiagram = <<>>

\* C30: a generation that has started ends with loading false and a text
\* shown, and a declined confirmation makes no request and leaves the shown
\* and the stored material as they are.
C30_GenerateEnds ==
  /\ loading ~> (~loading /\ content # "")
  /\ [][(confirmAnswer # "declined" /\ confirmAnswer' = "declined") =>
          UNCHANGED <<content, diagramData, loading, isSavedMaterial, storedText,
                      storedDiagram, aiRequests>>]_vars

\* C24: over the finished quizzes the stored bestScore of a topic never
\* decreases and lies in 0..100, a stored isPassed never goes back to false,
\* and only the entry of the topic of the quiz changes.
C24_ProgressMonotone ==
  [][\A id \in DOMAIN topicProgress :
       /\ topicProgress'[id].bestScore >= topicProgress[id].bestScore
       /\ topicProgress'[id].bestScore \in 0..100
       /\ topicProgress[id].isPassed => topicProgress'[id].isPassed
       /\ topicProgress'[id] # topicProgress[id] =>
            /\ selectedTopic \in TopicIndexes
            /\ id = At(TOPICS, selectedTopic)
            /\ quizState'.isFinished]_vars

\* A topic passed with every answer right, after a later quiz on it with
\* every answer wrong.
C24_Witness ==
  /\ selectedTopic \in TopicIndexes
  /\ quizState.isFinished
  /\ quizState.score = 0
  /\ topicProgress[At(TOPICS, selectedTopic)].bestScore = 100
  /\ topicProgress[At(TOPICS, selectedTopic)].isPassed
  /\ topicProgress[At(TOPICS, selectedTopic)].lastAttempt = 2

\* The topic before the one at the index has no stored isPassed = true.
PreviousNotPassed(index) ==
  index > 0 /\ ~topicProgress[At(TOPICS, index - 1)].isPassed

\* C27: on the topic list a topic is locked exactly when the guided mode is
\* on, it is not the first and the topic before it is not stored as passed;
\* and the study or quiz view is never opened on such a topic.
C27_GuidedLocking ==
  /\ [](currentView = "TOPIC_LIST" =>
          \A index \in TopicIndexes :
            isTopicLocked(index) <=> (guidedMode /\ PreviousNotPassed(index)))
  /\ [][(currentView' \in {"STUDY", "QUIZ"} /\ currentView' # currentView) =>
          ~(guidedMode /\ PreviousNotPassed(selectedTopic'))]_vars

\* In guided mode the second topic is open after the first was passed.
C27_Witness ==
  /\ guidedMode
  /\ currentView \in {"STUDY", "QUIZ"}
  /\ selectedTopic = 1
  /\ topicProgress[At(TOPICS, 0)].isPassed

\* The questions whose recorded answer is the right one.
RightAnswers(state) ==
  {k \in 1..Len(state.questions) :
     state.userAnswers[k] = state.questions[k].correctAnswerIndex}

\* C28: in a quiz currentQuestionIndex is an index of the questions; the quiz
\* becomes finished exactly by nextQuestion on the last question; the score
\* of a finished quiz is the number of right answers; and handleAnswer leaves
\* a finished quiz as it is.
C28_QuizBounds ==
  /\ [](quizState.questions # <<>> =>
          /\ quizState.currentQuestionIndex \in 0..(Len(quizState.questions) - 1)
          /\ quizState.isFinished =>
               /\ quizState.score = Cardinality(RightAnswers(quizState))
               /\ quizState.score \in 0..Len(quizState.questions)
               /\ \A optionIndex \in 0..1 : answered(quizState, optionIndex) = quizState)
  /\ [][/\ (quizState'.isFinished /\ ~quizState.isFinished) =>
             /\ activeQuiz
             /\ hasAnsweredCurrent
             /\ quizState.currentQuestionIndex = Len(quizState.questions) - 1
        /\ (/\ activeQuiz
            /\ hasAnsweredCurrent
            /\ quizState.currentQuestionIndex = Len(quizState.questions) - 1
            /\ currentView' = "QUIZ"
            /\ quizState' # quizState) => quizState'.isFinished]_vars

\* A quiz of three questions finished with two right answers.
C28_Witness ==
  /\ quizState.isFinished
  /\ Len(quizState.questions) = 3
  /\ quizState.score = 2
  /\ quizState.currentQuestionIndex = 2

\* The questions that have an answer which is not the right one.
WrongAnswers(state) ==
  {k \in 1..Len(state.questions) :
     /\ state.userAnswers[k] # -1
     /\ state.userAnswers[k] # state.questions[k].correctAnswerIndex}

\* The n-th of a set of numbers, in increasing order.
Nth(S, n) == CHOOSE k \in S : Cardinality({m \in S : m <= k}) = n

\* C29: failed_questions never has more than 50 entries and is in the order
\* of the dates; a finished quiz appends its wrongly answered questions, in
\* their order, to the most recent of the entries there were; and nothing
\* else changes the list, so a quiz without wrong answers leaves it.
C29_FailedQuestions ==
  /\ [](/\ Len(failedQuestions) <= 50
        /\ \A k \in 1..(Len(failedQuestions) - 1) :
             failedQuestions[k].date <= failedQuestions[k + 1].date)
  /\ [][IF quizState'.isFinished /\ ~quizState.isFinished
        THEN \A wrong \in {WrongAnswers(quizState)} :
               \A n \in {Cardinality(wrong)} :
                 \A kept \in {Len(failedQuestions') - n} :
                   /\ Len(failedQuestions') =
                        IF Len(failedQuestions) + n <= 50 THEN Len(failedQuestions) + n
                        ELSE 50
                   /\ \A j \in 1..n :
                        /\ failedQuestions'[kept + j].question =
                             quizState.questions[Nth(wrong, j)].question
                        /\ failedQuestions'[kept + j].date = now
                   /\ \A j \in 1..kept :
                        failedQuestions'[j] =
                          failedQuestions[Len(failedQuestions) - kept + j]
        ELSE failedQuestions' = failedQuestions]_vars

\* A full list whose two last entries are of a quiz of this run: older
\* entries were dropped.
C29_Witness ==
  /\ Len(failedQuestions) = 50
  /\ failedQuestions[50].date > 0
  /\ failedQuestions[49].date > 0
  /\ failedQuestions[1].date = 0

\* The steps of the chat of C26: a request is made only by a ChatAssistant
\* that awaits none, and with exactly one user message appended; while it
\* awaits the reply the transcript is unchanged and no request is made; the
\* reply appends exactly one model message right after the user message,
\* whatever the service did; and a handleSend that returns changes nothing.
ChatSteps ==
  /\ chatRequests' > chatRequests =>
       /\ ~chatLoading
       /\ chatLoading'
       /\ chatRequests' = chatRequests + 1
       /\ Len(messages') = Len(messages) + 1
       /\ SubSeq(messages', 1, Len(messages)) = messages
       /\ messages'[Len(messages')].role = "user"
  /\ (chatLoading /\ chatLoading') =>
       /\ messages' = messages
       /\ chatRequests' <= chatRequests
  /\ (chatLoading /\ ~chatLoading' /\ currentView' = "CHAT") =>
       /\ messages[Len(messages)].role = "user"
       /\ Len(messages') = Len(messages) + 1
       /\ SubSeq(messages', 1, Len(messages)) = messages
       /\ messages'[Len(messages')].role = "model"
       /\ messages'[Len(messages')].text # <<>>
  /\ (lastSend # "ignored" /\ lastSend' = "ignored") =>
       UNCHANGED <<messages, chatLoading, chatRequests>>

\* C26, as stated: at most one chat request is outstanding at any time, a
\* handleSend made meanwhile makes no request and leaves the transcript, and
\* an accepted send appends one user message and then one model message.
C26_OneRequest ==
  /\ [](chatRequests <= 1)
  /\ [](chatLoading <=> chatRequests = 1)
  /\ [][ChatSteps]_vars

\* C26, amended: a ChatAssistant has at most one request of its own
\* outstanding, which it has exactly while loading, the requests beyond it
\* being those of chats that were left; a handleSend made while it awaits the
\* reply makes no request and leaves the transcript; and an accepted send
\* appends one user message and, in a chat that stays open, the reply appends
\* one model message after it.
C26_OneRequestPerView ==
  /\ [](chatLoading => chatRequests >= 1)
  /\ [][ChatSteps]_vars

\* The service failed on the request of a review of mistakes, in a chat that
\* was opened again while a request of the chat before was outstanding.
C26_Witness ==
  /\ currentView = "CHAT"
  /\ ~chatLoading
  /\ chatRequests = 1
  /\ Len(messages) = 3
  /\ messages[2].role = "user"
  /\ messages[2].text = reviewPrompt(failedQuestions)
  /\ messages[3] = [role |-> "model", text |-> chatWithTutor(replyError)]
====
